---- MODULE Spec2Model ----
(***************************************************************************)
(* Building-code dashboard: the jurisdiction store, the search             *)
(* autocomplete and the report renderer of the client script.              *)
(*                                                                         *)
(* Strings that the code inspects character by character (names, state     *)
(* codes, the search text) are sequences of one-character strings.  Code   *)
(* book keys are only compared for equality and are TLA+ strings.  A JS    *)
(* object is the sequence of its properties, [key, value], in insertion    *)
(* order.  An amendment list keeps its length; each amendment text is      *)
(* represented by its position in the list, because the operations below   *)
(* read only the list's length.  year, status, effective, region and the   *)
(* notes are rendered verbatim by the code and are left out.               *)
(***************************************************************************)
EXTENDS Integers, Sequences, FiniteSets, TLC

(* ------------------------------ bounds --------------------------------- *)
\* Longest text typed into the search box one key at a time.
MaxTypedLen == 2
\* Most comma-separated pieces in a composed query.
MaxPieces == 2

(* ------------------------- characters and strings ---------------------- *)
UpperCase == <<"A","B","C","D","E","F","G","H","I","J","K","L","M",
               "N","O","P","Q","R","S","T","U","V","W","X","Y","Z">>
LowerCase == <<"a","b","c","d","e","f","g","h","i","j","k","l","m",
               "n","o","p","q","r","s","t","u","v","w","x","y","z">>
Digits == {"0","1","2","3","4","5","6","7","8","9"}
\* The characters \s matches and trim() strips, among those of the model.
WhiteSpace == {" "}

LowerOf == [c \in {UpperCase[i] : i \in 1..26} |->
              LowerCase[CHOOSE i \in 1..26 : UpperCase[i] = c]]
UpperOf == [c \in {LowerCase[i] : i \in 1..26} |->
              UpperCase[CHOOSE i \in 1..26 : LowerCase[i] = c]]

toLowerCase(s) == [i \in 1..Len(s) |-> IF s[i] \in DOMAIN LowerOf THEN LowerOf[s[i]] ELSE s[i]]
toUpperCase(s) == [i \in 1..Len(s) |-> IF s[i] \in DOMAIN UpperOf THEN UpperOf[s[i]] ELSE s[i]]

\* String.prototype.includes
includes(s, t) == \E i \in 1..(Len(s) - Len(t) + 1) : SubSeq(s, i, i + Len(t) - 1) = t

\* String.prototype.trim
trim(s) ==
  LET keep == {i \in 1..Len(s) : s[i] \notin WhiteSpace}
  IN  IF keep = {} THEN <<>>
      ELSE SubSeq(s, CHOOSE i \in keep : \A j \in keep : i <= j,
                     CHOOSE i \in keep : \A j \in keep : j <= i)

\* String.prototype.split with a one-character separator
RECURSIVE split(_, _)
split(s, sep) ==
  IF \A i \in 1..Len(s) : s[i] # sep THEN <<s>>
  ELSE LET i == CHOOSE k \in 1..Len(s) : s[k] = sep /\ \A j \in 1..(k-1) : s[j] # sep
       IN  <<SubSeq(s, 1, i - 1)>> \o split(SubSeq(s, i + 1, Len(s)), sep)

AllDigits(s, from, to) == from >= 1 /\ to <= Len(s) /\ \A i \in from..to : s[i] \in Digits

\* p.replace(/\s+\d{5}(-\d{4})?$/, ''): the leftmost match is deleted.  A match
\* is a run of white space, five digits and optionally "-" and four digits,
\* reaching the end of p; it starts where the white-space run starts.
ZipLen == 5
Plus4Len == 4
replaceZip(p) ==
  LET n == Len(p)
      \* first index of the digit part, or 0 when p does not end in one
      d == IF AllDigits(p, n - ZipLen + 1, n) THEN n - ZipLen + 1
           ELSE IF /\ AllDigits(p, n - Plus4Len + 1, n)
                   /\ n - Plus4Len >= 1
                   /\ p[n - Plus4Len] = "-"
                   /\ AllDigits(p, n - Plus4Len - ZipLen, n - Plus4Len - 1)
                THEN n - Plus4Len - ZipLen
                ELSE 0
  IN  IF d >= 2 /\ p[d - 1] \in WhiteSpace
      THEN LET run == {i \in 1..(d-1) : \A j \in i..(d-1) : p[j] \in WhiteSpace}
           IN  SubSeq(p, 1, (CHOOSE i \in run : \A j \in run : i <= j) - 1)
      ELSE p

\* a paired with its indices, so that a test of SelectSeq can see positions
indexed(a) == [i \in 1..Len(a) |-> [at |-> i, item |-> a[i]]]
items(a) == [i \in 1..Len(a) |-> a[i].item]

\* [...new Set(a)]: the first occurrence of every element, in order
uniq(a) ==
  LET first(x) == \A j \in 1..(x.at - 1) : a[j] # x.item
  IN  items(SelectSeq(indexed(a), first))

(* ----------------------------- the dataset ----------------------------- *)
\* One property of an adopted object: a code book and its amendment list
adoption(code, n) == [key |-> code, value |-> [amendments |-> [i \in 1..n |-> i]]]

\* The properties of the JURISDICTIONS literal, in source order.  OH and PA
\* are written twice in the source.
JURISDICTIONS_LITERAL == <<
  [key |-> <<"A","L">>, value |->
   [name |-> <<"A","l","a","b","a","m","a">>, abbr |-> <<"A","L">>,
    adopted |-> <<adoption("IBC", 2), adoption("IRC", 0), adoption("IFC", 0), adoption("NEC", 0), adoption("IECC", 1)>>,
    cities |-> <<
      [key |-> <<"B","i","r","m","i","n","g","h","a","m">>, value |->
         [type |-> <<"c","i","t","y">>,
          adopted |-> <<adoption("IBC", 2), adoption("IRC", 0), adoption("IFC", 1), adoption("NEC", 1), adoption("IECC", 0), adoption("IEBC", 0)>>,
          fireDistricts |-> <<[adopted |-> <<adoption("IFC", 2)>>]>>]],
      [key |-> <<"M","o","b","i","l","e">>, value |->
         [type |-> <<"c","i","t","y">>,
          adopted |-> <<adoption("IBC", 2), adoption("IRC", 1), adoption("NEC", 0), adoption("IFC", 0)>>]]>>,
    counties |-> <<
      [key |-> <<"J","e","f","f","e","r","s","o","n"," ","C","o","u","n","t","y">>, value |->
         [type |-> <<"c","o","u","n","t","y">>,
          adopted |-> <<adoption("IBC", 0), adoption("IRC", 0), adoption("NEC", 0)>>]],
      [key |-> <<"M","o","b","i","l","e"," ","C","o","u","n","t","y">>, value |->
         [type |-> <<"c","o","u","n","t","y">>,
          adopted |-> <<adoption("IBC", 1), adoption("NEC", 0)>>]]>>]],
  [key |-> <<"A","K">>, value |->
   [name |-> <<"A","l","a","s","k","a">>, abbr |-> <<"A","K">>,
    adopted |-> <<adoption("IFC", 2), adoption("NEC", 0)>>,
    cities |-> <<
      [key |-> <<"A","n","c","h","o","r","a","g","e">>, value |->
         [type |-> <<"m","u","n","i","c","i","p","a","l","i","t","y">>,
          adopted |-> <<adoption("IBC", 3), adoption("IRC", 2), adoption("IFC", 0), adoption("NEC", 0), adoption("IECC", 1), adoption("IMC", 1)>>]],
      [key |-> <<"F","a","i","r","b","a","n","k","s">>, value |->
         [type |-> <<"c","i","t","y">>,
          adopted |-> <<adoption("IBC", 2), adoption("NEC", 0), adoption("IFC", 0)>>]]>>,
    counties |-> <<>>]],
  [key |-> <<"A","Z">>, value |->
   [name |-> <<"A","r","i","z","o","n","a">>, abbr |-> <<"A","Z">>,
    adopted |-> <<adoption("IFC", 1), adoption("NEC", 0)>>,
    cities |-> <<
      [key |-> <<"P","h","o","e","n","i","x">>, value |->
         [type |-> <<"c","i","t","y">>,
          adopted |-> <<adoption("IBC", 4), adoption("IRC", 2), adoption("IFC", 2), adoption("NEC", 2), adoption("IECC", 2), adoption("IMC", 0), adoption("IPC", 1)>>,
          fireDistricts |-> <<[adopted |-> <<adoption("IFC", 2)>>]>>]],
      [key |-> <<"T","u","c","s","o","n">>, value |->
         [type |-> <<"c","i","t","y">>,
          adopted |-> <<adoption("IBC", 2), adoption("IRC", 1), adoption("IFC", 0), adoption("NEC", 0), adoption("IECC", 1)>>]],
      [key |-> <<"S","c","o","t","t","s","d","a","l","e">>, value |->
         [type |-> <<"c","i","t","y">>,
          adopted |-> <<adoption("IBC", 1), adoption("IRC", 0), adoption("IFC", 1), adoption("NEC", 0)>>]]>>,
    counties |-> <<
      [key |-> <<"M","a","r","i","c","o","p","a"," ","C","o","u","n","t","y">>, value |->
         [type |-> <<"c","o","u","n","t","y">>,
          adopted |-> <<adoption("IBC", 0), adoption("IRC", 0), adoption("NEC", 0), adoption("IFC", 0)>>]],
      [key |-> <<"P","i","m","a"," ","C","o","u","n","t","y">>, value |->
         [type |-> <<"c","o","u","n","t","y">>,
          adopted |-> <<adoption("IBC", 1), adoption("NEC", 0)>>]]>>]],
  [key |-> <<"C","A">>, value |->
   [name |-> <<"C","a","l","i","f","o","r","n","i","a">>, abbr |-> <<"C","A">>,
    adopted |-> <<adoption("CBC", 2), adoption("CRC", 1), adoption("CEC", 1), adoption("CPC", 1), adoption("CMC", 1), adoption("IECC", 2), adoption("IFC", 2)>>,
    cities |-> <<
      [key |-> <<"L","o","s"," ","A","n","g","e","l","e","s">>, value |->
         [type |-> <<"c","i","t","y">>,
          adopted |-> <<adoption("CBC", 4), adoption("CEC", 2), adoption("CPC", 1), adoption("IFC", 2), adoption("IECC", 2)>>,
          fireDistricts |-> <<[adopted |-> <<adoption("IFC", 3)>>]>>]],
      [key |-> <<"S","a","n"," ","F","r","a","n","c","i","s","c","o">>, value |->
         [type |-> <<"c","i","t","y">>,
          adopted |-> <<adoption("CBC", 4), adoption("CEC", 1), adoption("CPC", 0), adoption("IFC", 1), adoption("IECC", 2)>>]],
      [key |-> <<"S","a","n"," ","D","i","e","g","o">>, value |->
         [type |-> <<"c","i","t","y">>,
          adopted |-> <<adoption("CBC", 2), adoption("CEC", 0), adoption("IFC", 3)>>]]>>,
    counties |-> <<
      [key |-> <<"L","o","s"," ","A","n","g","e","l","e","s"," ","C","o","u","n","t","y">>, value |->
         [type |-> <<"c","o","u","n","t","y">>,
          adopted |-> <<adoption("CBC", 2), adoption("CEC", 0), adoption("IFC", 2)>>]]>>]],
  [key |-> <<"C","O">>, value |->
   [name |-> <<"C","o","l","o","r","a","d","o">>, abbr |-> <<"C","O">>,
    adopted |-> <<adoption("NEC", 1), adoption("IFC", 1)>>,
    cities |-> <<
      [key |-> <<"D","e","n","v","e","r">>, value |->
         [type |-> <<"c","i","t","y">>,
          adopted |-> <<adoption("IBC", 4), adoption("IRC", 2), adoption("IFC", 2), adoption("NEC", 2), adoption("IECC", 2), adoption("IMC", 0), adoption("IPC", 0), adoption("IEBC", 0)>>,
          fireDistricts |-> <<[adopted |-> <<adoption("IFC", 2)>>]>>]],
      [key |-> <<"B","o","u","l","d","e","r">>, value |->
         [type |-> <<"c","i","t","y">>,
          adopted |-> <<adoption("IBC", 2), adoption("IRC", 2), adoption("NEC", 0), adoption("IECC", 2), adoption("IFC", 1)>>]]>>,
    counties |-> <<
      [key |-> <<"D","e","n","v","e","r"," ","C","o","u","n","t","y">>, value |->
         [type |-> <<"c","o","u","n","t","y">>,
          adopted |-> <<>>]],
      [key |-> <<"J","e","f","f","e","r","s","o","n"," ","C","o","u","n","t","y">>, value |->
         [type |-> <<"c","o","u","n","t","y">>,
          adopted |-> <<adoption("IBC", 2), adoption("IRC", 1), adoption("NEC", 0), adoption("IFC", 0)>>]],
      [key |-> <<"A","r","a","p","a","h","o","e"," ","C","o","u","n","t","y">>, value |->
         [type |-> <<"c","o","u","n","t","y">>,
          adopted |-> <<adoption("IBC", 0), adoption("IRC", 0), adoption("NEC", 0)>>]]>>]],
  [key |-> <<"F","L">>, value |->
   [name |-> <<"F","l","o","r","i","d","a">>, abbr |-> <<"F","L">>,
    adopted |-> <<adoption("IBC", 6), adoption("IRC", 3), adoption("NEC", 2), adoption("IFC", 1), adoption("IECC", 3), adoption("IPC", 0), adoption("IMC", 1)>>,
    cities |-> <<
      [key |-> <<"M","i","a","m","i">>, value |->
         [type |-> <<"c","i","t","y">>,
          adopted |-> <<adoption("IBC", 4), adoption("IRC", 2), adoption("NEC", 1), adoption("IFC", 0)>>]],
      [key |-> <<"O","r","l","a","n","d","o">>, value |->
         [type |-> <<"c","i","t","y">>,
          adopted |-> <<adoption("IBC", 2), adoption("NEC", 0), adoption("IFC", 1)>>]]>>,
    counties |-> <<
      [key |-> <<"M","i","a","m","i","-","D","a","d","e"," ","C","o","u","n","t","y">>, value |->
         [type |-> <<"c","o","u","n","t","y">>,
          adopted |-> <<adoption("IBC", 3), adoption("NEC", 0), adoption("IFC", 0)>>]],
      [key |-> <<"B","r","o","w","a","r","d"," ","C","o","u","n","t","y">>, value |->
         [type |-> <<"c","o","u","n","t","y">>,
          adopted |-> <<adoption("IBC", 1), adoption("NEC", 0)>>]]>>]],
  [key |-> <<"I","L">>, value |->
   [name |-> <<"I","l","l","i","n","o","i","s">>, abbr |-> <<"I","L">>,
    adopted |-> <<adoption("IFC", 1), adoption("NEC", 0), adoption("IPC", 1)>>,
    cities |-> <<
      [key |-> <<"C","h","i","c","a","g","o">>, value |->
         [type |-> <<"c","i","t","y">>,
          adopted |-> <<adoption("IBC", 6), adoption("NEC", 2), adoption("IFC", 2), adoption("IPC", 1), adoption("IECC", 2)>>]],
      [key |-> <<"S","p","r","i","n","g","f","i","e","l","d">>, value |->
         [type |-> <<"c","i","t","y">>,
          adopted |-> <<adoption("IBC", 0), adoption("NEC", 0), adoption("IFC", 0)>>]]>>,
    counties |-> <<
      [key |-> <<"C","o","o","k"," ","C","o","u","n","t","y">>, value |->
         [type |-> <<"c","o","u","n","t","y">>,
          adopted |-> <<adoption("IBC", 1), adoption("NEC", 0), adoption("IFC", 0)>>]]>>]],
  [key |-> <<"N","Y">>, value |->
   [name |-> <<"N","e","w"," ","Y","o","r","k">>, abbr |-> <<"N","Y">>,
    adopted |-> <<adoption("IBC", 4), adoption("IRC", 1), adoption("NEC", 1), adoption("IFC", 1), adoption("IECC", 3)>>,
    cities |-> <<
      [key |-> <<"N","e","w"," ","Y","o","r","k"," ","C","i","t","y">>, value |->
         [type |-> <<"c","i","t","y">>,
          adopted |-> <<adoption("IBC", 7), adoption("NEC", 2), adoption("IFC", 3), adoption("IECC", 3), adoption("IPC", 1), adoption("IMC", 1)>>]],
      [key |-> <<"B","u","f","f","a","l","o">>, value |->
         [type |-> <<"c","i","t","y">>,
          adopted |-> <<adoption("IBC", 2), adoption("NEC", 0), adoption("IFC", 0)>>]]>>,
    counties |-> <<
      [key |-> <<"W","e","s","t","c","h","e","s","t","e","r"," ","C","o","u","n","t","y">>, value |->
         [type |-> <<"c","o","u","n","t","y">>,
          adopted |-> <<adoption("IBC", 2), adoption("NEC", 0)>>]]>>]],
  [key |-> <<"T","X">>, value |->
   [name |-> <<"T","e","x","a","s">>, abbr |-> <<"T","X">>,
    adopted |-> <<adoption("NEC", 1), adoption("IFC", 1)>>,
    cities |-> <<
      [key |-> <<"H","o","u","s","t","o","n">>, value |->
         [type |-> <<"c","i","t","y">>,
          adopted |-> <<adoption("IBC", 3), adoption("IRC", 1), adoption("NEC", 0), adoption("IFC", 0), adoption("IECC", 1)>>]],
      [key |-> <<"D","a","l","l","a","s">>, value |->
         [type |-> <<"c","i","t","y">>,
          adopted |-> <<adoption("IBC", 3), adoption("IRC", 0), adoption("NEC", 0), adoption("IFC", 0), adoption("IECC", 1)>>]],
      [key |-> <<"A","u","s","t","i","n">>, value |->
         [type |-> <<"c","i","t","y">>,
          adopted |-> <<adoption("IBC", 3), adoption("IRC", 1), adoption("NEC", 1), adoption("IFC", 0), adoption("IECC", 1)>>]],
      [key |-> <<"S","a","n"," ","A","n","t","o","n","i","o">>, value |->
         [type |-> <<"c","i","t","y">>,
          adopted |-> <<adoption("IBC", 0), adoption("IRC", 0), adoption("NEC", 0), adoption("IFC", 0)>>]]>>,
    counties |-> <<
      [key |-> <<"H","a","r","r","i","s"," ","C","o","u","n","t","y">>, value |->
         [type |-> <<"c","o","u","n","t","y">>,
          adopted |-> <<adoption("IBC", 1), adoption("NEC", 0)>>]],
      [key |-> <<"T","r","a","v","i","s"," ","C","o","u","n","t","y">>, value |->
         [type |-> <<"c","o","u","n","t","y">>,
          adopted |-> <<adoption("IBC", 0), adoption("NEC", 0)>>]]>>]],
  [key |-> <<"W","A">>, value |->
   [name |-> <<"W","a","s","h","i","n","g","t","o","n">>, abbr |-> <<"W","A">>,
    adopted |-> <<adoption("IBC", 4), adoption("IRC", 3), adoption("NEC", 1), adoption("IFC", 1), adoption("WSEC", 3)>>,
    cities |-> <<
      [key |-> <<"S","e","a","t","t","l","e">>, value |->
         [type |-> <<"c","i","t","y">>,
          adopted |-> <<adoption("IBC", 5), adoption("IRC", 1), adoption("NEC", 2), adoption("IFC", 2), adoption("WSEC", 3), adoption("IMC", 1)>>,
          fireDistricts |-> <<[adopted |-> <<adoption("IFC", 3)>>]>>]],
      [key |-> <<"S","p","o","k","a","n","e">>, value |->
         [type |-> <<"c","i","t","y">>,
          adopted |-> <<adoption("IBC", 1), adoption("NEC", 0), adoption("WSEC", 0)>>]]>>,
    counties |-> <<
      [key |-> <<"K","i","n","g"," ","C","o","u","n","t","y">>, value |->
         [type |-> <<"c","o","u","n","t","y">>,
          adopted |-> <<adoption("IBC", 2), adoption("WSEC", 0), adoption("NEC", 0)>>]]>>]],
  [key |-> <<"O","R">>, value |->
   [name |-> <<"O","r","e","g","o","n">>, abbr |-> <<"O","R">>,
    adopted |-> <<adoption("OSSC", 2), adoption("IFC", 1), adoption("NEC", 0), adoption("IECC", 1)>>,
    cities |-> <<
      [key |-> <<"P","o","r","t","l","a","n","d">>, value |->
         [type |-> <<"c","i","t","y">>,
          adopted |-> <<adoption("OSSC", 3), adoption("NEC", 0), adoption("IFC", 0), adoption("IECC", 1)>>]]>>,
    counties |-> <<>>]],
  [key |-> <<"V","A">>, value |->
   [name |-> <<"V","i","r","g","i","n","i","a">>, abbr |-> <<"V","A">>,
    adopted |-> <<adoption("IBC", 3), adoption("IRC", 1), adoption("NEC", 1), adoption("IFC", 1), adoption("IECC", 2)>>,
    cities |-> <<>>,
    counties |-> <<>>]],
  [key |-> <<"G","A">>, value |->
   [name |-> <<"G","e","o","r","g","i","a">>, abbr |-> <<"G","A">>,
    adopted |-> <<adoption("IBC", 2), adoption("IRC", 0), adoption("NEC", 0), adoption("IFC", 0), adoption("IECC", 1)>>,
    cities |-> <<
      [key |-> <<"A","t","l","a","n","t","a">>, value |->
         [type |-> <<"c","i","t","y">>,
          adopted |-> <<adoption("IBC", 2), adoption("NEC", 0), adoption("IFC", 0), adoption("IECC", 1)>>]]>>,
    counties |-> <<
      [key |-> <<"F","u","l","t","o","n"," ","C","o","u","n","t","y">>, value |->
         [type |-> <<"c","o","u","n","t","y">>,
          adopted |-> <<adoption("IBC", 0), adoption("NEC", 0)>>]]>>]],
  [key |-> <<"M","A">>, value |->
   [name |-> <<"M","a","s","s","a","c","h","u","s","e","t","t","s">>, abbr |-> <<"M","A">>,
    adopted |-> <<adoption("IBC", 4), adoption("IRC", 1), adoption("NEC", 1), adoption("IFC", 1), adoption("IECC", 3)>>,
    cities |-> <<
      [key |-> <<"B","o","s","t","o","n">>, value |->
         [type |-> <<"c","i","t","y">>,
          adopted |-> <<adoption("IBC", 3), adoption("NEC", 0), adoption("IFC", 1), adoption("IECC", 2)>>]]>>,
    counties |-> <<>>]],
  [key |-> <<"H","I">>, value |->
   [name |-> <<"H","a","w","a","i","i">>, abbr |-> <<"H","I">>,
    adopted |-> <<adoption("IBC", 3), adoption("NEC", 0), adoption("IFC", 0)>>,
    cities |-> <<>>,
    counties |-> <<>>]],
  [key |-> <<"I","D">>, value |->
   [name |-> <<"I","d","a","h","o">>, abbr |-> <<"I","D">>,
    adopted |-> <<adoption("IFC", 0), adoption("NEC", 0)>>,
    cities |-> <<
      [key |-> <<"B","o","i","s","e">>, value |->
         [type |-> <<"c","i","t","y">>,
          adopted |-> <<adoption("IBC", 1), adoption("NEC", 0), adoption("IFC", 0)>>]]>>,
    counties |-> <<>>]],
  [key |-> <<"M","N">>, value |->
   [name |-> <<"M","i","n","n","e","s","o","t","a">>, abbr |-> <<"M","N">>,
    adopted |-> <<adoption("IBC", 3), adoption("IRC", 0), adoption("NEC", 0), adoption("IFC", 0), adoption("IECC", 1)>>,
    cities |-> <<
      [key |-> <<"M","i","n","n","e","a","p","o","l","i","s">>, value |->
         [type |-> <<"c","i","t","y">>,
          adopted |-> <<adoption("IBC", 2), adoption("NEC", 0), adoption("IFC", 0)>>]]>>,
    counties |-> <<>>]],
  [key |-> <<"O","H">>, value |->
   [name |-> <<"O","h","i","o">>, abbr |-> <<"O","H">>,
    adopted |-> <<adoption("IBC", 2), adoption("NEC", 0), adoption("IFC", 0), adoption("IECC", 0)>>,
    cities |-> <<
      [key |-> <<"C","o","l","u","m","b","u","s">>, value |->
         [type |-> <<"c","i","t","y">>,
          adopted |-> <<adoption("IBC", 0), adoption("NEC", 0), adoption("IFC", 0)>>]],
      [key |-> <<"C","l","e","v","e","l","a","n","d">>, value |->
         [type |-> <<"c","i","t","y">>,
          adopted |-> <<adoption("IBC", 2), adoption("NEC", 0)>>]]>>,
    counties |-> <<>>]],
  [key |-> <<"P","A">>, value |->
   [name |-> <<"P","e","n","n","s","y","l","v","a","n","i","a">>, abbr |-> <<"P","A">>,
    adopted |-> <<adoption("IBC", 2), adoption("IRC", 1), adoption("NEC", 0), adoption("IFC", 0), adoption("IECC", 0)>>,
    cities |-> <<
      [key |-> <<"P","h","i","l","a","d","e","l","p","h","i","a">>, value |->
         [type |-> <<"c","i","t","y">>,
          adopted |-> <<adoption("IBC", 3), adoption("NEC", 0), adoption("IFC", 1)>>]]>>,
    counties |-> <<>>]],
  [key |-> <<"O","H">>, value |->
   [name |-> <<"O","h","i","o">>, abbr |-> <<"O","H">>,
    adopted |-> <<adoption("IBC", 2), adoption("NEC", 0), adoption("IFC", 0), adoption("IECC", 0)>>,
    cities |-> <<
      [key |-> <<"C","o","l","u","m","b","u","s">>, value |->
         [type |-> <<"c","i","t","y">>,
          adopted |-> <<adoption("IBC", 0), adoption("NEC", 0), adoption("IFC", 0)>>]],
      [key |-> <<"C","l","e","v","e","l","a","n","d">>, value |->
         [type |-> <<"c","i","t","y">>,
          adopted |-> <<adoption("IBC", 2), adoption("NEC", 0)>>]]>>,
    counties |-> <<>>]],
  [key |-> <<"P","A">>, value |->
   [name |-> <<"P","e","n","n","s","y","l","v","a","n","i","a">>, abbr |-> <<"P","A">>,
    adopted |-> <<adoption("IBC", 2), adoption("IRC", 1), adoption("NEC", 0), adoption("IFC", 0), adoption("IECC", 0)>>,
    cities |-> <<
      [key |-> <<"P","h","i","l","a","d","e","l","p","h","i","a">>, value |->
         [type |-> <<"c","i","t","y">>,
          adopted |-> <<adoption("IBC", 3), adoption("NEC", 0), adoption("IFC", 1)>>]]>>,
    counties |-> <<>>]]
>>

\* ALL_STATES of the fallback script
ALL_STATES == <<
  [abbr |-> <<"A","R">>, name |-> <<"A","r","k","a","n","s","a","s">>],
  [abbr |-> <<"C","T">>, name |-> <<"C","o","n","n","e","c","t","i","c","u","t">>],
  [abbr |-> <<"D","E">>, name |-> <<"D","e","l","a","w","a","r","e">>],
  [abbr |-> <<"I","A">>, name |-> <<"I","o","w","a">>],
  [abbr |-> <<"I","N">>, name |-> <<"I","n","d","i","a","n","a">>],
  [abbr |-> <<"K","S">>, name |-> <<"K","a","n","s","a","s">>],
  [abbr |-> <<"K","Y">>, name |-> <<"K","e","n","t","u","c","k","y">>],
  [abbr |-> <<"L","A">>, name |-> <<"L","o","u","i","s","i","a","n","a">>],
  [abbr |-> <<"M","E">>, name |-> <<"M","a","i","n","e">>],
  [abbr |-> <<"M","D">>, name |-> <<"M","a","r","y","l","a","n","d">>],
  [abbr |-> <<"M","I">>, name |-> <<"M","i","c","h","i","g","a","n">>],
  [abbr |-> <<"M","S">>, name |-> <<"M","i","s","s","i","s","s","i","p","p","i">>],
  [abbr |-> <<"M","O">>, name |-> <<"M","i","s","s","o","u","r","i">>],
  [abbr |-> <<"M","T">>, name |-> <<"M","o","n","t","a","n","a">>],
  [abbr |-> <<"N","E">>, name |-> <<"N","e","b","r","a","s","k","a">>],
  [abbr |-> <<"N","V">>, name |-> <<"N","e","v","a","d","a">>],
  [abbr |-> <<"N","H">>, name |-> <<"N","e","w"," ","H","a","m","p","s","h","i","r","e">>],
  [abbr |-> <<"N","J">>, name |-> <<"N","e","w"," ","J","e","r","s","e","y">>],
  [abbr |-> <<"N","M">>, name |-> <<"N","e","w"," ","M","e","x","i","c","o">>],
  [abbr |-> <<"N","C">>, name |-> <<"N","o","r","t","h"," ","C","a","r","o","l","i","n","a">>],
  [abbr |-> <<"N","D">>, name |-> <<"N","o","r","t","h"," ","D","a","k","o","t","a">>],
  [abbr |-> <<"O","K">>, name |-> <<"O","k","l","a","h","o","m","a">>],
  [abbr |-> <<"R","I">>, name |-> <<"R","h","o","d","e"," ","I","s","l","a","n","d">>],
  [abbr |-> <<"S","C">>, name |-> <<"S","o","u","t","h"," ","C","a","r","o","l","i","n","a">>],
  [abbr |-> <<"S","D">>, name |-> <<"S","o","u","t","h"," ","D","a","k","o","t","a">>],
  [abbr |-> <<"T","N">>, name |-> <<"T","e","n","n","e","s","s","e","e">>],
  [abbr |-> <<"U","T">>, name |-> <<"U","t","a","h">>],
  [abbr |-> <<"V","T">>, name |-> <<"V","e","r","m","o","n","t">>],
  [abbr |-> <<"W","V">>, name |-> <<"W","e","s","t"," ","V","i","r","g","i","n","i","a">>],
  [abbr |-> <<"W","I">>, name |-> <<"W","i","s","c","o","n","s","i","n">>],
  [abbr |-> <<"W","Y">>, name |-> <<"W","y","o","m","i","n","g">>]
>>

\* The stateNote of the objects the fallback script stores
Str_stubNote == "Contact your local building department for current adopted codes. Data pending detailed research."

\* Mutation of stub: the code field holds the name
stubUnderName(s) ==
  [name |-> s.name, abbr |-> s.name, stateNote |-> Str_stubNote,
   adopted |-> <<adoption("IBC", 1), adoption("NEC", 0)>>,
   cities |-> <<>>, counties |-> <<>>]

\* The object the fallback script stores for element s of ALL_STATES
stub(s) ==
  [name |-> s.name, abbr |-> s.abbr, stateNote |-> Str_stubNote,
   adopted |-> <<adoption("IBC", 1), adoption("NEC", 0)>>,
   cities |-> <<>>, counties |-> <<>>]

(* ------------------------- JS values and objects ----------------------- *)
\* undefined: what a read of an absent property returns
undefined == [undefined |-> TRUE]
\* null.  The code only tests a null for truthiness, which the empty string
\* fails as well; null is the empty sequence.
null == <<>>

\* Object.keys, Object.values, obj[k]
keys(obj) == [i \in 1..Len(obj) |-> obj[i].key]
values(obj) == [i \in 1..Len(obj) |-> obj[i].value]
get(obj, k) ==
  LET hits == {i \in 1..Len(obj) : obj[i].key = k}
  IN  IF hits = {} THEN undefined ELSE obj[CHOOSE i \in hits : TRUE].value

\* The state objects.  No statement of the program writes into a state object
\* once it is built, so the objects are fixed and the store holds references:
\* to the value of property i of the literal, or to the stub for ALL_STATES[n].
literalRef(i) == [obj |-> "literal", at |-> i]
stubRef(n) == [obj |-> "stub", at |-> n]
deref(ref) ==
  IF ref.obj = "literal" THEN JURISDICTIONS_LITERAL[ref.at].value
  ELSE stub(ALL_STATES[ref.at])

\* Object.values(JURISDICTIONS), JURISDICTIONS[abbr]
stateObjects(store) == [i \in 1..Len(store) |-> deref(store[i].value)]
getState(store, abbr) ==
  LET ref == get(store, abbr) IN IF ref = undefined THEN undefined ELSE deref(ref)

\* The object literal evaluated: a key written twice keeps its first position
\* and its last value.
objectLiteral(props) ==
  LET first(x) == \A j \in 1..(x.at - 1) : props[j].key # x.item.key
      firsts   == SelectSeq(indexed(props), first)
      last(k)  == CHOOSE i \in 1..Len(props) :
                    /\ props[i].key = k
                    /\ \A j \in (i+1)..Len(props) : props[j].key # k
  IN  [i \in 1..Len(firsts) |->
         [key |-> firsts[i].item.key, value |-> literalRef(last(firsts[i].item.key))]]

\* Mutation of fallback: the store is rebuilt from the fallback list alone
fallbackReplaces(store) ==
  [n \in 1..Len(ALL_STATES) |-> [key |-> ALL_STATES[n].abbr, value |-> stubRef(n)]]

\* Mutation of fallback: the test of the store is inverted, so an object is
\* stored only over a state the store holds
fallbackInverted(store) ==
  LET listed(k) == \E n \in 1..Len(ALL_STATES) : ALL_STATES[n].abbr = k
      last(k)   == CHOOSE n \in 1..Len(ALL_STATES) :
                     /\ ALL_STATES[n].abbr = k
                     /\ \A m \in (n+1)..Len(ALL_STATES) : ALL_STATES[m].abbr # k
  IN  [i \in 1..Len(store) |->
         IF listed(store[i].key)
         THEN [key |-> store[i].key, value |-> stubRef(last(store[i].key))]
         ELSE store[i]]

\* ALL_STATES.forEach(s => { if (!JURISDICTIONS[s.abbr]) JURISDICTIONS[s.abbr] = {...} }):
\* a stub is stored, as a new last property, for every element whose code
\* neither the store nor an earlier element has
fallback(store) ==
  LET absent(x) == /\ get(store, x.item.abbr) = undefined
                   /\ \A j \in 1..(x.at - 1) : ALL_STATES[j].abbr # x.item.abbr
      added     == SelectSeq(indexed(ALL_STATES), absent)
  IN  store \o [i \in 1..Len(added) |->
                  [key |-> added[i].item.abbr, value |-> stubRef(added[i].at)]]

(* ------------------------------ the search ----------------------------- *)
MinQueryLength == 2
MaxSuggestions == 8

Str_state  == <<"s","t","a","t","e",":">>
Str_city   == <<"c","i","t","y",":">>
Str_county == <<"c","o","u","n","t","y",":">>

stateEntry(state) ==
  [label |-> state.name, sub |-> state.abbr, type |-> "STATE",
   state |-> state.abbr, city |-> null, county |-> null]

\* Mutation of cityEntry: the name is stored in the county field
cityEntryAsCounty(state, city) ==
  [label |-> city, sub |-> state.name, type |-> "CITY",
   state |-> state.abbr, city |-> null, county |-> city]

cityEntry(state, city) ==
  [label |-> city, sub |-> state.name, type |-> "CITY",
   state |-> state.abbr, city |-> city, county |-> null]
countyEntry(state, county) ==
  [label |-> county, sub |-> state.name, type |-> "COUNTY",
   state |-> state.abbr, city |-> null, county |-> county]

\* The loops of buildSuggestions are modelled in two steps: the (key, entry)
\* pairs whose if-condition holds, in the order the nested forEach loops reach
\* them, and then the seen-guarded pushes applied to them in that order.

\* Object.keys(state.cities || {}).forEach(...): the pairs of the matching cities
forEachCity(t, state) ==
  LET hit(city) == includes(toLowerCase(city), t)
      matches   == SelectSeq(keys(state.cities), hit)
  IN  [i \in 1..Len(matches) |->
         [key   |-> Str_city \o state.abbr \o <<":">> \o matches[i],
          entry |-> cityEntry(state, matches[i])]]

\* Object.keys(state.counties || {}).forEach(...)
forEachCounty(t, state) ==
  LET hit(county) == includes(toLowerCase(county), t)
      matches     == SelectSeq(keys(state.counties), hit)
  IN  [i \in 1..Len(matches) |->
         [key   |-> Str_county \o state.abbr \o <<":">> \o matches[i],
          entry |-> countyEntry(state, matches[i])]]

\* Mutation of stateMatches: the code of the state is not compared
nameMatchesOnly(t, state) == includes(toLowerCase(state.name), t)

\* state.name.toLowerCase().includes(t) || state.abbr.toLowerCase() === t
stateMatches(t, state) ==
  includes(toLowerCase(state.name), t) \/ toLowerCase(state.abbr) = t

\* Mutation of matchState: the state's own entry comes after its cities and counties
matchStateLast(t, state) ==
  forEachCity(t, state) \o forEachCounty(t, state) \o
  (IF stateMatches(t, state)
   THEN << [key |-> Str_state \o state.abbr, entry |-> stateEntry(state)] >>
   ELSE <<>>)

\* Mutation of matchState: the loop over the counties comes before the loop
\* over the cities
matchStateCountiesFirst(t, state) ==
  (IF stateMatches(t, state)
   THEN << [key |-> Str_state \o state.abbr, entry |-> stateEntry(state)] >>
   ELSE <<>>) \o forEachCounty(t, state) \o forEachCity(t, state)

\* The body of the loop over the states, for one state
matchState(t, state) ==
  (IF stateMatches(t, state)
   THEN << [key |-> Str_state \o state.abbr, entry |-> stateEntry(state)] >>
   ELSE <<>>) \o forEachCity(t, state) \o forEachCounty(t, state)

\* Object.values(JURISDICTIONS).forEach(...) over the states lo..hi, in order
\* (the range is halved to keep the evaluation shallow)
RECURSIVE forEachState(_, _, _, _)
forEachState(t, states, lo, hi) ==
  IF lo > hi THEN <<>>
  ELSE IF lo = hi THEN matchState(t, states[lo])
  ELSE LET mid == (lo + hi) \div 2
       IN  forEachState(t, states, lo, mid) \o forEachState(t, states, mid + 1, hi)

\* terms.forEach(...)
RECURSIVE forEachTerm(_, _, _)
forEachTerm(terms, states, i) ==
  IF i > Len(terms) THEN <<>>
  ELSE forEachState(toLowerCase(terms[i]), states, 1, Len(states))
         \o forEachTerm(terms, states, i + 1)

\* Mutation of pushUnseen: every pair is pushed
pushAll(pairs) == [i \in 1..Len(pairs) |-> pairs[i].entry]

\* if (!seen.has(key)) { seen.add(key); results.push(entry) }, over the pairs in
\* order: a pair is pushed unless an earlier pair has its key
pushUnseen(pairs) ==
  LET unseen(x) == \A j \in 1..(x.at - 1) : pairs[j].key # x.item.key
      pushed    == SelectSeq(indexed(pairs), unseen)
  IN  [i \in 1..Len(pushed) |-> pushed[i].item.entry]

\* query.split(',').map(p => p.trim().replace(/\s+\d{5}(-\d{4})?$/, '').trim())
rawParts(query) ==
  LET parts == split(query, ",")
  IN  [i \in 1..Len(parts) |-> trim(replaceZip(trim(parts[i])))]

\* Mutation of longEnough: no piece is dropped
keepAll(a) == a

\* .filter(p => p.length >= 2)
longEnough(a) ==
  LET ok(p) == Len(p) >= MinQueryLength IN SelectSeq(a, ok)

\* const terms = [...new Set(rawParts)].filter(p => p.length >= 2)
terms(query) == longEnough(uniq(rawParts(query)))

\* Mutation of slice: nothing is cut off
sliceNothing(a, n) == a

\* results.slice(0, n)
slice(a, n) == SubSeq(a, 1, IF Len(a) < n THEN Len(a) ELSE n)

buildSuggestions(query, store) ==
  IF Len(query) < MinQueryLength THEN <<>>
  ELSE LET pairs == forEachTerm(terms(query), stateObjects(store), 1)
       IN  slice(pushUnseen(pairs), MaxSuggestions)

(* ----------------------- the state list and the tree ------------------- *)
\* a.localeCompare(b) over the characters of the names: white space and "-"
\* sort before digits, digits before letters, letters without regard to case;
\* strings equal up to case are ordered lower case first.
CollationOrder == <<" ", "-", "0","1","2","3","4","5","6","7","8","9">> \o LowerCase
weight(c) ==
  LET l == IF c \in DOMAIN LowerOf THEN LowerOf[c] ELSE c
  IN  CHOOSE i \in 1..Len(CollationOrder) : CollationOrder[i] = l
lexLess(x, y) ==
  \E k \in 1..Len(y) :
     /\ k <= Len(x) + 1
     /\ \A j \in 1..(k-1) : x[j] = y[j]
     /\ k = Len(x) + 1 \/ x[k] < y[k]
localeCompare(a, b) ==
  LET wa == [i \in 1..Len(a) |-> weight(a[i])]
      wb == [i \in 1..Len(b) |-> weight(b[i])]
  IN  IF lexLess(wa, wb) THEN -1
      ELSE IF lexLess(wb, wa) THEN 1
      ELSE IF a = b THEN 0
      ELSE LET k == CHOOSE i \in 1..Len(a) : a[i] # b[i] /\ \A j \in 1..(i-1) : a[j] = b[j]
           IN  IF a[k] \in DOMAIN UpperOf THEN -1 ELSE 1

\* Mutation of sort: the array is left in the order of the store
unsorted(a) == a

\* Object.values(JURISDICTIONS).sort((a,b) => a.name.localeCompare(b.name)),
\* over references to the state objects: a stable sort.  Element i lands after
\* the elements that sort before it and after the equal elements that precede
\* it; the positions are computed once.
sort(a) ==
  LET place(i) == 1 + Cardinality({j \in 1..Len(a) :
                        LET c == localeCompare(deref(a[j]).name, deref(a[i]).name)
                        IN  c < 0 \/ (c = 0 /\ j < i)})
      places   == <<>> \o [i \in 1..Len(a) |-> place(i)]
  IN  [p \in 1..Len(a) |-> a[CHOOSE i \in 1..Len(a) : places[i] = p]]

\* buildTree: one row per element of statesSorted, with one sub-item per city
\* and per county of that state (the data-state, data-city and data-county
\* attributes)
buildTree(sorted) ==
  [i \in 1..Len(sorted) |->
     [state    |-> deref(sorted[i]).abbr,
      cities   |-> keys(deref(sorted[i]).cities),
      counties |-> keys(deref(sorted[i]).counties)]]

(* ------------------------------ the report ----------------------------- *)
MajorAmendmentThreshold == 3
Str_municipality == <<"m","u","n","i","c","i","p","a","l","i","t","y">>
Str_STATE == <<"S","T","A","T","E">>
Str_US == <<"U","S">>

\* Mutation of isLocal: every report is composed for the state
neverLocal(local, localName) == FALSE

\* const isLocal = local && localName
isLocal(local, localName) == local # undefined /\ localName # null

\* Mutation of jType: the type of the record is not read
jTypeDefault(local, localName) ==
  IF isLocal(local, localName) THEN toUpperCase(Str_municipality) ELSE Str_STATE

\* isLocal ? (local.type || 'municipality').toUpperCase() : 'STATE'
jType(local, localName) ==
  IF isLocal(local, localName)
  THEN toUpperCase(IF "type" \in DOMAIN local /\ local.type # null
                   THEN local.type ELSE Str_municipality)
  ELSE Str_STATE

\* Mutation of adoptedCodes: the state's mapping whatever the scope
stateAdopted(state, local, localName) == state.adopted

\* const adoptedCodes = isLocal ? local.adopted : state.adopted
adoptedCodes(state, local, localName) ==
  IF isLocal(local, localName) THEN local.adopted ELSE state.adopted

\* Object.keys(adoptedCodes).length
codeCount(adopted) == Len(keys(adopted))

\* Object.values(adoptedCodes).reduce((sum, c) => sum + (c.amendments?.length || 0), 0)
RECURSIVE reduce(_, _)
reduce(codes, n) ==
  IF n = 0 THEN 0
  ELSE reduce(codes, n - 1)
         + (IF "amendments" \in DOMAIN codes[n] THEN Len(codes[n].amendments) ELSE 0)

\* Mutation of amendCount: the amendments of the first code only
firstAmendments(adopted) == reduce(values(adopted), IF Len(adopted) > 0 THEN 1 ELSE 0)

amendCount(adopted) == reduce(values(adopted), Len(adopted))

\* Mutation of fireDistricts: the list of the record is not read
noFireDistricts(local, localName) == <<>>

\* const fireDistricts = isLocal ? (local.fireDistricts || []) : []
fireDistricts(local, localName) ==
  IF isLocal(local, localName) /\ "fireDistricts" \in DOMAIN local
  THEN local.fireDistricts ELSE <<>>

\* Mutation of hasMajorAmendments: the boundary is not strict
atThreshold(count) == count >= MajorAmendmentThreshold

\* const hasMajorAmendments = amendCount > 3
hasMajorAmendments(count) == count > MajorAmendmentThreshold

(* ------------------------ the data source catalog ---------------------- *)
\* CODE_SOURCES: code key -> source key
CODE_SOURCES == <<
  [key |-> "IBC", value |-> "icc_chart"], [key |-> "IRC", value |-> "icc_chart"],
  [key |-> "IFC", value |-> "icc_chart"], [key |-> "IMC", value |-> "icc_chart"],
  [key |-> "IPC", value |-> "icc_chart"], [key |-> "IECC", value |-> "icc_chart"],
  [key |-> "IEBC", value |-> "icc_chart"], [key |-> "IGCC", value |-> "icc_chart"],
  [key |-> "IFGC", value |-> "icc_chart"],
  [key |-> "NEC", value |-> "nec_nfpa"],
  [key |-> "NFPA1", value |-> "nfpa_atc"], [key |-> "NFPA13", value |-> "nfpa_atc"],
  [key |-> "NFPA72", value |-> "nfpa_atc"],
  [key |-> "UPC", value |-> "iapmo_upc"], [key |-> "UMC", value |-> "iapmo_umc"],
  [key |-> "CBC", value |-> "ca_bsc"], [key |-> "CMC", value |-> "ca_bsc"],
  [key |-> "CPC", value |-> "ca_bsc"], [key |-> "CEC", value |-> "ca_bsc"],
  [key |-> "NYSBC", value |-> "nys_dos"], [key |-> "OSSC", value |-> "or_bcd"],
  [key |-> "WSEC", value |-> "wa_sbcc"] >>

\* DATA_SOURCES: source key -> the source.  A url is the sequence of its
\* pieces; stateUrl is the constant head of the template of the per-state URL.
DATA_SOURCES == <<
  [key |-> "icc_chart", value |->
     [url |-> <<"https://www.iccsafe.org/wp-content/uploads/Master-I-Code-Adoption-Chart.pdf">>,
      codes |-> <<"IBC","IRC","IFC","IMC","IPC","IECC","IEBC","IGCC","IFGC">>]],
  [key |-> "nec_nfpa", value |->
     [url |-> <<"https://www.nfpa.org/education-and-research/electrical/nec-enforcement-maps">>,
      codes |-> <<"NEC">>]],
  [key |-> "becp", value |->
     [url |-> <<"https://www.energycodes.gov/status">>,
      stateUrl |-> <<"https://www.energycodes.gov/status/states/">>,
      codes |-> <<"IECC">>]],
  [key |-> "nfpa_atc", value |->
     [url |-> <<"https://www.nfpa.org/Codes-and-Standards/Adoption-Tracking-Center">>,
      codes |-> <<"NFPA1","NFPA13","NFPA72">>]],
  [key |-> "municode", value |->
     [url |-> <<"https://library.municode.com/">>, codes |-> <<>>]],
  [key |-> "iapmo_upc", value |->
     [url |-> <<"https://www.iapmo.org/upc/">>, codes |-> <<"UPC">>]],
  [key |-> "iapmo_umc", value |->
     [url |-> <<"https://www.iapmo.org/umc/">>, codes |-> <<"UMC">>]],
  [key |-> "ca_bsc", value |->
     [url |-> <<"https://www.dgs.ca.gov/BSC/Codes">>, codes |-> <<"CBC","CMC","CPC","CEC">>]],
  [key |-> "nys_dos", value |->
     [url |-> <<"https://dos.ny.gov/building-codes">>, codes |-> <<"NYSBC">>]],
  [key |-> "or_bcd", value |->
     [url |-> <<"https://www.oregon.gov/bcd/codes-stand/Pages/oregon-codes-standards.aspx">>,
      codes |-> <<"OSSC">>]],
  [key |-> "wa_sbcc", value |->
     [url |-> <<"https://sbcc.wa.gov/state-building-codes">>, codes |-> <<"WSEC">>]] >>

\* obj[k] is truthy: the object has the property
has(obj, k) == \E i \in 1..Len(obj) : obj[i].key = k

\* a.includes(x), on an array
arrayIncludes(a, x) == \E i \in 1..Len(a) : a[i] = x

\* stateUrl: (abbr) => `https://www.energycodes.gov/status/states/${abbr.toLowerCase()}`
stateUrl(src, abbr) == src.stateUrl \o toLowerCase(abbr)

\* Mutation of sourceUrl: the url of the source, for IECC as well
genericSourceUrl(key, stateAbbr) ==
  IF has(CODE_SOURCES, key) /\ has(DATA_SOURCES, get(CODE_SOURCES, key))
  THEN get(DATA_SOURCES, get(CODE_SOURCES, key)).url
  ELSE null

\* The source link of a code card (sourceUrl; null: no link is rendered):
\*   sourceDef ? sourceDef.url : null, and for IECC the per-state page of becp
sourceUrl(key, stateAbbr) ==
  IF key = "IECC" /\ stateAbbr # null /\ "stateUrl" \in DOMAIN get(DATA_SOURCES, "becp")
  THEN stateUrl(get(DATA_SOURCES, "becp"), stateAbbr)
  ELSE IF has(CODE_SOURCES, key) /\ has(DATA_SOURCES, get(CODE_SOURCES, key))
  THEN get(DATA_SOURCES, get(CODE_SOURCES, key)).url
  ELSE null

\* String.prototype.startsWith
startsWith(s, t) == Len(t) <= Len(s) /\ SubSeq(s, 1, Len(t)) = t

Str_based_on   == <<"b","a","s","e","d"," ","o","n">>
Str_chapter    == <<"c","h","a","p","t","e","r">>
Str_required   == <<"r","e","q","u","i","r","e","d">>
Str_mandatory  == <<"m","a","n","d","a","t","o","r","y">>
Str_prohibited == <<"p","r","o","h","i","b","i","t","e","d">>
Str_removed    == <<"r","e","m","o","v","e","d">>

\* Mutation of amendmentIcon: the text is compared as written
amendmentIconCaseSensitive(amend) ==
  IF startsWith(amend, Str_based_on) \/ startsWith(amend, Str_chapter) THEN "amend-mod"
  ELSE IF includes(amend, Str_required) \/ includes(amend, Str_mandatory) THEN "amend-add"
  ELSE IF includes(amend, Str_prohibited) \/ includes(amend, Str_removed) THEN "amend-del"
  ELSE "amend-mod"

\* amendmentIcon(amend): the class of the icon returned
amendmentIcon(amend) ==
  LET a == toLowerCase(amend)
  IN  IF startsWith(a, Str_based_on) \/ startsWith(a, Str_chapter) THEN "amend-mod"
      ELSE IF includes(a, Str_required) \/ includes(a, Str_mandatory) THEN "amend-add"
      ELSE IF includes(a, Str_prohibited) \/ includes(a, Str_removed) THEN "amend-del"
      ELSE "amend-mod"

\* renderCodeCard(key, code, stateAbbr): the card of one code entry
renderCodeCard(key, code, stateAbbr) ==
  [key |-> key,
   amendments |-> IF "amendments" \in DOMAIN code THEN Len(code.amendments) ELSE 0,
   sourceUrl |-> sourceUrl(key, stateAbbr)]

\* Object.entries(adopted).map(([k,v]) => renderCodeCard(k,v,state.abbr))
cards(adopted, stateAbbr) ==
  [i \in 1..Len(adopted) |-> renderCodeCard(adopted[i].key, adopted[i].value, stateAbbr)]

\* { ...a, ...b }: the properties of a in their order, with the values b gives
\* them, followed by the other properties of b
spread(a, b) ==
  LET fresh(p) == ~has(a, p.key)
  IN  [i \in 1..Len(a) |->
         [key |-> a[i].key,
          value |-> IF has(b, a[i].key) THEN get(b, a[i].key) ELSE a[i].value]]
        \o SelectSeq(b, fresh)

\* neededSources, in insertion order: per code its source and, for IECC, becp;
\* then icc_chart if any code is one of its codes; then municode if isLocal
neededSources(isLoc, adopted) ==
  LET perCode(i) ==
        (IF has(CODE_SOURCES, adopted[i].key)
         THEN <<get(CODE_SOURCES, adopted[i].key)>> ELSE <<>>)
        \o (IF adopted[i].key = "IECC" THEN <<"becp">> ELSE <<>>)
      hasIccCode == \E i \in 1..Len(adopted) :
                      arrayIncludes(get(DATA_SOURCES, "icc_chart").codes, adopted[i].key)
      added == [i \in 1..Len(adopted) |-> perCode(i)]
      flat[n \in 0..Len(adopted)] == IF n = 0 THEN <<>> ELSE flat[n - 1] \o added[n]
  IN  uniq(flat[Len(adopted)]
           \o (IF hasIccCode THEN <<"icc_chart">> ELSE <<>>)
           \o (IF isLoc THEN <<"municode">> ELSE <<>>))

\* One row of the sources panel (no row for a key DATA_SOURCES does not hold)
sourceRow(sk, state, adopted) ==
  LET src == get(DATA_SOURCES, sk)
      covered(k) == arrayIncludes(src.codes, k)
  IN  [source |-> sk,
       url |-> IF sk = "becp" /\ "stateUrl" \in DOMAIN src /\ state.abbr # null
               THEN stateUrl(src, state.abbr) ELSE src.url,
       covers |-> SelectSeq(keys(adopted), covered)]

\* Mutation of buildSourcesPanel: municode is not added for a local view
panelWithoutMunicode(state, isLoc, adopted) ==
  LET needed == neededSources(FALSE, adopted)
      known(sk) == has(DATA_SOURCES, sk)
      shown == SelectSeq(needed, known)
  IN  [size |-> Len(needed),
       rows |-> [i \in 1..Len(shown) |-> sourceRow(shown[i], state, adopted)]]

\* buildSourcesPanel(state, isLocal, adoptedCodes): the count shown and the rows
buildSourcesPanel(state, isLoc, adopted) ==
  LET needed == neededSources(isLoc, adopted)
      known(sk) == has(DATA_SOURCES, sk)
      shown == SelectSeq(needed, known)
  IN  [size |-> Len(needed),
       rows |-> [i \in 1..Len(shown) |-> sourceRow(shown[i], state, adopted)]]

\* Mutation of stateCodeNote: the section needs local codes as well
stateCodeNoteIfLocalCodes(state, local, localName) ==
  IF isLocal(local, localName) /\ Len(keys(state.adopted)) > 0 /\ Len(keys(local.adopted)) > 0
  THEN cards(state.adopted, state.abbr) ELSE <<>>

\* The state-level base codes section: the cards of state.adopted, when
\* isLocal && Object.keys(state.adopted).length > 0 (no section: no cards)
stateCodeNote(state, local, localName) ==
  IF isLocal(local, localName) /\ Len(keys(state.adopted)) > 0
  THEN cards(state.adopted, state.abbr) ELSE <<>>

\* Mutation of allAdoptedForSources: the codes of the active section only
ownCodesForSources(state, local, localName) == adoptedCodes(state, local, localName)

\* const allAdoptedForSources = isLocal ? { ...state.adopted, ...local.adopted } : adoptedCodes
allAdoptedForSources(state, local, localName) ==
  IF isLocal(local, localName) THEN spread(state.adopted, local.adopted)
  ELSE adoptedCodes(state, local, localName)

\* What showReport writes into rightPanel
showReport(state, local, localName) ==
  LET adopted == adoptedCodes(state, local, localName)
      fds     == fireDistricts(local, localName)
  IN  [kind        |-> "report",
       breadcrumb  |-> IF isLocal(local, localName)
                       THEN <<Str_US, state.name, localName>>
                       ELSE <<Str_US, state.name>>,
       displayName |-> IF isLocal(local, localName) THEN localName ELSE state.name,
       jType       |-> jType(local, localName),
       codeCount   |-> codeCount(adopted),
       amendCount  |-> amendCount(adopted),
       fireDistricts |-> Len(fds),
       amendBanner |-> hasMajorAmendments(amendCount(adopted)),
       codes       |-> keys(adopted),
       codes_html  |-> cards(adopted, state.abbr),
       fireSection |-> Len(fds) > 0,
       stateCodeNote |-> stateCodeNote(state, local, localName),
       footer      |-> buildSourcesPanel(state, isLocal(local, localName),
                                         allAdoptedForSources(state, local, localName))]

\* The panel before any report is shown
Welcome == [kind |-> "welcome"]


(* ------------------------------- the state ----------------------------- *)
VARIABLES
  JURISDICTIONS,   \* the store: the states in property order
  scriptsRun,      \* which of the two scripts, "fallback" and "app", have run
  statesSorted,    \* the sorted array of (references to) state objects
  searchInput,     \* searchInput.value
  visible,         \* autocompleteDiv has class "visible"
  suggestions,     \* autocompleteDiv._suggestions
  rightPanel,      \* what rightPanel shows
  lastSearch,      \* history: the last call of buildSuggestions and its result
  request,         \* history: the last scope a report was asked for
  amendment,       \* the amendment text amendmentIcon is called with
  icon             \* the class of the icon it returned ("none": not called)

vars == <<JURISDICTIONS, scriptsRun, statesSorted, searchInput, visible,
          suggestions, rightPanel, lastSearch, request, amendment, icon>>

storeVars  == <<JURISDICTIONS, scriptsRun, statesSorted>>

\* The rows of the browse tree: buildTree() runs once, in the script that sets
\* statesSorted, and nothing else writes the tree.
stateTree == buildTree(statesSorted)
searchVars == <<searchInput, visible, suggestions, lastSearch>>
reportVars == <<rightPanel, request>>
iconVars   == <<amendment, icon>>

NoSearch  == [called |-> FALSE, query |-> <<>>, results |-> <<>>]
NoRequest == [kind |-> "NONE", state |-> null, name |-> null, thrown |-> FALSE,
              rendered |-> FALSE]

Init ==
  /\ JURISDICTIONS = objectLiteral(JURISDICTIONS_LITERAL)
  /\ scriptsRun = {}
  /\ statesSorted = <<>>
  /\ searchInput = <<>>
  /\ visible = FALSE
  /\ suggestions = <<>>
  /\ rightPanel = Welcome
  /\ lastSearch = NoSearch
  /\ request = NoRequest
  /\ amendment = <<>>
  /\ icon = "none"

(* ------------------------------ the scripts ---------------------------- *)
RunFallbackScript ==
  /\ "fallback" \notin scriptsRun
  /\ scriptsRun' = scriptsRun \cup {"fallback"}
  /\ JURISDICTIONS' = fallback(JURISDICTIONS)
  /\ UNCHANGED <<statesSorted, searchVars, reportVars>>
  /\ UNCHANGED iconVars

\* const statesSorted = ...; the listeners are attached; buildTree()
RunAppScript ==
  /\ "app" \notin scriptsRun
  /\ scriptsRun' = scriptsRun \cup {"app"}
  /\ statesSorted' = sort(values(JURISDICTIONS))
  /\ UNCHANGED <<JURISDICTIONS, searchVars, reportVars>>
  /\ UNCHANGED iconVars

(* --------------------------- the search handlers ----------------------- *)
\* Mutation of selectSuggestion: the autocomplete list is left as it is
selectSuggestionKeepsList(s) ==
  LET state == getState(JURISDICTIONS, s.state)
      kind  == IF s.city # null THEN "CITY" ELSE IF s.county # null THEN "COUNTY" ELSE "STATE"
      name  == IF s.city # null THEN s.city ELSE IF s.county # null THEN s.county ELSE null
      local == IF state = undefined THEN undefined
               ELSE IF s.city # null THEN get(state.cities, s.city)
               ELSE IF s.county # null THEN get(state.counties, s.county)
               ELSE undefined
  IN  /\ visible' = visible
      /\ searchInput' = s.label
      /\ request' = [kind |-> kind, state |-> s.state, name |-> name,
                     thrown |-> (state = undefined), rendered |-> (state # undefined)]
      /\ rightPanel' = IF state = undefined THEN rightPanel
                       ELSE showReport(state, local, name)

\* selectSuggestion(s).  A read of a property of undefined throws a TypeError:
\* the statements before it have taken effect and the panel is left as it was.
selectSuggestion(s) ==
  LET state == getState(JURISDICTIONS, s.state)
      kind  == IF s.city # null THEN "CITY" ELSE IF s.county # null THEN "COUNTY" ELSE "STATE"
      name  == IF s.city # null THEN s.city ELSE IF s.county # null THEN s.county ELSE null
      local == IF state = undefined THEN undefined
               ELSE IF s.city # null THEN get(state.cities, s.city)
               ELSE IF s.county # null THEN get(state.counties, s.county)
               ELSE undefined
  IN  /\ visible' = FALSE
      /\ searchInput' = s.label
      /\ request' = [kind |-> kind, state |-> s.state, name |-> name,
                     thrown |-> (state = undefined), rendered |-> (state # undefined)]
      /\ rightPanel' = IF state = undefined THEN rightPanel
                       ELSE showReport(state, local, name)

\* The listener of the input event, run on the text `value`
inputListener(value) ==
  LET found == buildSuggestions(value, JURISDICTIONS)
  IN  /\ lastSearch' = [called |-> TRUE, query |-> value, results |-> found]
      /\ IF Len(found) = 0
         THEN visible' = FALSE /\ UNCHANGED suggestions
         ELSE visible' = TRUE /\ suggestions' = found

TypeAlphabet == {"a", "z", " ", ","}

TypeChar(c) ==
  /\ "app" \in scriptsRun
  /\ Len(searchInput) < MaxTypedLen
  /\ searchInput' = Append(searchInput, c)
  /\ inputListener(searchInput')
  /\ UNCHANGED <<storeVars, reportVars>>
  /\ UNCHANGED iconVars

\* The text is replaced as a whole (a paste over the selection, or clearing it)
PasteExamples ==
  { <<>>,
    <<"o","r">>,
    <<"1","2","3"," ","M","a","i","n"," ","S","t",","," ","P","h","o","e","n","i","x",",",
      " ","A","Z"," ","8","5","0","0","1">> }

PasteQuery(q) ==
  /\ "app" \in scriptsRun
  /\ searchInput' = q
  /\ inputListener(q)
  /\ UNCHANGED <<storeVars, reportVars>>
  /\ UNCHANGED iconVars

\* A click on item idx of the autocomplete list
ClickSuggestion(idx) ==
  /\ "app" \in scriptsRun
  /\ visible
  /\ idx \in 1..Len(suggestions)
  /\ selectSuggestion(suggestions[idx])
  /\ UNCHANGED <<storeVars, suggestions, lastSearch>>
  /\ UNCHANGED iconVars

\* const sugg = buildSuggestions(searchInput.value); if (sugg.length > 0) selectSuggestion(sugg[0])
submit ==
  LET sugg == buildSuggestions(searchInput, JURISDICTIONS)
  IN  /\ lastSearch' = [called |-> TRUE, query |-> searchInput, results |-> sugg]
      /\ IF Len(sugg) > 0
         THEN selectSuggestion(sugg[1])
         ELSE UNCHANGED <<searchInput, visible, reportVars>>
      /\ UNCHANGED <<storeVars, suggestions>>
  /\ UNCHANGED iconVars

SearchBtnClick == "app" \in scriptsRun /\ submit
EnterKey       == "app" \in scriptsRun /\ submit

\* A click outside the search wrapper and outside the tree
DocumentClick ==
  /\ "app" \in scriptsRun
  /\ visible' = FALSE
  /\ UNCHANGED <<storeVars, searchInput, suggestions, lastSearch, reportVars>>
  /\ UNCHANGED iconVars

(* ----------------------------- the tree clicks ------------------------- *)
\* A click on a state row: the report of the state; the click then reaches the
\* document listener, which hides the autocomplete list.
StateRowClick(i) ==
  /\ "app" \in scriptsRun
  /\ i \in 1..Len(stateTree)
  /\ LET abbr == stateTree[i].state
     IN  /\ rightPanel' = showReport(getState(JURISDICTIONS, abbr), undefined, null)
         /\ request' = [kind |-> "STATE", state |-> abbr, name |-> null, thrown |-> FALSE,
                         rendered |-> TRUE]
  /\ visible' = FALSE
  /\ UNCHANGED <<storeVars, searchInput, suggestions, lastSearch>>
  /\ UNCHANGED iconVars

\* A click on a sub-item: e.stopPropagation(), so the document listener does not run
CitySubItemClick(i, j) ==
  /\ "app" \in scriptsRun
  /\ i \in 1..Len(stateTree)
  /\ j \in 1..Len(stateTree[i].cities)
  /\ LET state == getState(JURISDICTIONS, stateTree[i].state)
         city  == stateTree[i].cities[j]
     IN  /\ rightPanel' = showReport(state, get(state.cities, city), city)
         /\ request' = [kind |-> "CITY", state |-> state.abbr, name |-> city, thrown |-> FALSE,
                         rendered |-> TRUE]
  /\ UNCHANGED <<storeVars, searchVars>>
  /\ UNCHANGED iconVars

CountySubItemClick(i, j) ==
  /\ "app" \in scriptsRun
  /\ i \in 1..Len(stateTree)
  /\ j \in 1..Len(stateTree[i].counties)
  /\ LET state  == getState(JURISDICTIONS, stateTree[i].state)
         county == stateTree[i].counties[j]
     IN  /\ rightPanel' = showReport(state, get(state.counties, county), county)
         /\ request' = [kind |-> "COUNTY", state |-> state.abbr, name |-> county, thrown |-> FALSE,
                         rendered |-> TRUE]
  /\ UNCHANGED <<storeVars, searchVars>>
  /\ UNCHANGED iconVars

MaxRows == 2
MaxSubItems == 1

Next ==
  \/ RunFallbackScript
  \/ RunAppScript
  \/ \E c \in TypeAlphabet : TypeChar(c)
  \/ \E q \in PasteExamples : PasteQuery(q)
  \/ \E idx \in 1..MaxSuggestions : ClickSuggestion(idx)
  \/ SearchBtnClick
  \/ EnterKey
  \/ DocumentClick
  \/ \E i \in 1..MaxRows : StateRowClick(i)
  \/ \E i \in 1..MaxRows, j \in 1..MaxSubItems : CitySubItemClick(i, j)
  \/ \E i \in 1..MaxRows, j \in 1..MaxSubItems : CountySubItemClick(i, j)

Spec == Init /\ [][Next]_vars

(* ------------------- the search run on bounded inputs ------------------ *)
\* The texts the search is run on: every state code of the two data files,
\* an address for every city of the dataset, texts with a piece that is only a
\* postal code, every text of up to MaxTypedLen
\* typed characters, and up to MaxPieces comma-separated pieces.
set(a) == {a[i] : i \in DOMAIN a}

RECURSIVE Typed(_)
Typed(n) ==
  IF n = 0 THEN {<<>>}
  ELSE Typed(n - 1) \cup {Append(s, c) : s \in Typed(n - 1), c \in TypeAlphabet}

Pieces == { <<"a","n">>, <<"a","z">>, <<"A","Z">>, <<"o","r">>, <<"c","o">> }

RECURSIVE Joined(_)
Joined(n) ==
  IF n = 1 THEN Pieces
  ELSE Joined(n - 1) \cup {s \o <<",">> \o p : s \in Joined(n - 1), p \in Pieces}

StateCodes ==
  {JURISDICTIONS_LITERAL[i].key : i \in DOMAIN JURISDICTIONS_LITERAL}
    \cup {ALL_STATES[i].abbr : i \in DOMAIN ALL_STATES}

Street == <<"1","2","3"," ","M","a","i","n"," ","S","t">>
Zip5   == <<"8","5","0","0","1">>
Zip9   == <<"8","0","2","0","2","-","1","2","3","4">>
Zips   == {Zip5, Zip9}

\* "<street>, <City>, <ST> <zip>"
address(city, abbr, zip) ==
  Street \o <<",", " ">> \o city \o <<",", " ">> \o abbr \o <<" ">> \o zip

CityAddresses ==
  UNION { {address(city, JURISDICTIONS_LITERAL[i].key, zip) :
             city \in set(keys(JURISDICTIONS_LITERAL[i].value.cities)), zip \in Zips}
          : i \in DOMAIN JURISDICTIONS_LITERAL }

\* Texts with a piece that is a postal code alone
ZipPieceQueries ==
  { Zip5,
    <<"P","h","o","e","n","i","x",","," ">> \o Zip5,
    <<"D","e","n","v","e","r",","," ","C","O",","," ">> \o Zip9 }

Queries ==
  StateCodes \cup CityAddresses \cup ZipPieceQueries
    \cup Typed(MaxTypedLen) \cup Joined(MaxPieces)

\* The page after both orders of loading: the app script alone, or the fallback
\* script and then the app script.  The list may be showing an earlier search.
Stores == { <<{"app"}, objectLiteral(JURISDICTIONS_LITERAL)>>,
            <<{"fallback", "app"}, fallback(objectLiteral(JURISDICTIONS_LITERAL))>> }

EarlierSearches == { <<>>, <<"a","z">> }

InitSearch ==
  /\ \E st \in Stores :
       /\ scriptsRun = st[1]
       /\ JURISDICTIONS = st[2]
       /\ statesSorted = sort(values(st[2]))
       /\ \E q \in EarlierSearches :
            /\ suggestions = buildSuggestions(q, st[2])
            /\ visible = (Len(suggestions) > 0)
  /\ searchInput \in Queries
  /\ rightPanel = Welcome
  /\ lastSearch = NoSearch
  /\ request = NoRequest
  /\ amendment = <<>>
  /\ icon = "none"

\* The input event on the text the box holds
InputEvent ==
  /\ ~lastSearch.called
  /\ inputListener(searchInput)
  /\ UNCHANGED <<storeVars, searchInput, reportVars>>
  /\ UNCHANGED iconVars

SpecSearch == InitSearch /\ [][InputEvent]_vars

(* ------------------ the report asked for bounded scopes ---------------- *)
\* The scopes a report is asked for: every state of the two data files, every
\* city and county of the dataset, and scopes the store does not hold.
Str_Nowhere == <<"N","o","w","h","e","r","e">>
Str_ZZ == <<"Z","Z">>

unknownEntry(abbr, city, county) ==
  [label |-> IF city # null THEN city ELSE IF county # null THEN county ELSE abbr,
   sub |-> abbr, type |-> "UNKNOWN", state |-> abbr, city |-> city, county |-> county]

Scopes(store) ==
  LET states == set(stateObjects(store))
  IN  {stateEntry(s) : s \in states}
        \cup UNION {{cityEntry(s, c) : c \in set(keys(s.cities))} : s \in states}
        \cup UNION {{countyEntry(s, c) : c \in set(keys(s.counties))} : s \in states}

UnknownScopes ==
  { unknownEntry(Str_ZZ, null, null),
    unknownEntry(Str_ZZ, Str_Nowhere, null),
    unknownEntry(<<"A","Z">>, Str_Nowhere, null),
    unknownEntry(<<"C","O">>, null, Str_Nowhere) }

\* selectSuggestion called with the scope s
DirectLookup(s) ==
  /\ "app" \in scriptsRun
  /\ selectSuggestion(s)
  /\ UNCHANGED <<storeVars, suggestions, lastSearch>>
  /\ UNCHANGED iconVars

NextDirect ==
  \/ RunFallbackScript
  \/ RunAppScript
  \/ \E s \in Scopes(JURISDICTIONS) \cup UnknownScopes : DirectLookup(s)

SpecDirect == Init /\ [][NextDirect]_vars

(* ---------------- the amendment classifier on bounded texts ------------ *)
\* The texts amendmentIcon is run on: up to MaxWords of the words below, joined
\* by blanks, and amendment texts of the dataset
MaxWords == 2
AmendmentWords ==
  { <<"C","h","a","p","t","e","r">>,
    <<"B","a","s","e","d"," ","o","n">>,
    <<"s","p","r","i","n","k","l","e","r","s">>,
    <<"r","e","q","u","i","r","e","d">>,
    <<"M","a","n","d","a","t","o","r","y">>,
    <<"P","R","O","H","I","B","I","T","E","D">>,
    <<"r","e","m","o","v","e","d">>,
    <<"p","e","r"," ","c","h","a","p","t","e","r"," ","9">> }

RECURSIVE Phrases(_)
Phrases(n) ==
  IF n = 1 THEN AmendmentWords
  ELSE Phrases(n - 1) \cup {p \o <<" ">> \o w : p \in Phrases(n - 1), w \in AmendmentWords}

DatasetAmendments ==
  { <<"C","h","a","p","t","e","r"," ","9",":"," ","H","i","g","h","-","r","i","s","e"," ","b","u","i","l","d","i","n","g","s"," ",">","5","5","f","t",":"," ","s","p","r","i","n","k","l","e","r","s"," ","r","e","q","u","i","r","e","d">>,
    <<"B","a","s","e","d"," ","o","n"," ","2","0","2","1"," ","U","P","C">>,
    <<"C","h","a","p","t","e","r"," ","1","6",":"," ","S","e","i","s","m","i","c"," ","D","e","s","i","g","n"," ","C","a","t","e","g","o","r","y"," ","B">> }

AmendmentTexts == Phrases(MaxWords) \cup DatasetAmendments

InitIcon ==
  /\ JURISDICTIONS = objectLiteral(JURISDICTIONS_LITERAL)
  /\ scriptsRun = {}
  /\ statesSorted = <<>>
  /\ searchInput = <<>>
  /\ visible = FALSE
  /\ suggestions = <<>>
  /\ rightPanel = Welcome
  /\ lastSearch = NoSearch
  /\ request = NoRequest
  /\ amendment \in AmendmentTexts
  /\ icon = "none"

\* renderCodeCard calls amendmentIcon(a) for an amendment a of a code
CallAmendmentIcon ==
  /\ icon = "none"
  /\ icon' = amendmentIcon(amendment)
  /\ UNCHANGED <<storeVars, searchVars, reportVars, amendment>>

SpecIcon == InitIcon /\ [][CallAmendmentIcon]_vars

(* -------------- a selection followed by the button or Enter ------------ *)
\* Suggestions of any scopes of the store are selected, and then the search
\* button or Enter is used on the text the last selection left in the box.
SelectBeforeSubmit(s) == ~lastSearch.called /\ DirectLookup(s)

NextResubmit ==
  \/ RunFallbackScript
  \/ RunAppScript
  \/ \E s \in Scopes(JURISDICTIONS) : SelectBeforeSubmit(s)
  \/ SearchBtnClick
  \/ EnterKey

SpecResubmit == Init /\ [][NextResubmit]_vars

(* ======================= the claims about the search =================== *)
\* What the claims say of a search is stated over the jurisdictions of the
\* store and the tokens of the text, not over the loops of buildSuggestions.
Min(a, b) == IF a < b THEN a ELSE b

Found == lastSearch.results
Tokens == terms(lastSearch.query)

\* Every jurisdiction of the store, as the entry a search would return for it
Jurisdictions == Scopes(JURISDICTIONS)

\* The identity key of an entry: match kind, state code, local name
identity(e) == <<e.type, e.state, e.city, e.county>>

\* Token number n matches the jurisdiction of entry e
tokenMatches(n, e) ==
  LET t == toLowerCase(Tokens[n])
  IN  \/ includes(toLowerCase(e.label), t)
      \/ e.type = "STATE" /\ toLowerCase(e.state) = t

\* The first token that matches e (0: none does)
firstToken(e) ==
  IF \E n \in 1..Len(Tokens) : tokenMatches(n, e)
  THEN CHOOSE n \in 1..Len(Tokens) :
         /\ tokenMatches(n, e)
         /\ \A m \in 1..(n - 1) : ~tokenMatches(m, e)
  ELSE 0

Matches == {e \in Jurisdictions : firstToken(e) > 0}

\* The position of e's state in the store, of its kind within the state, and of
\* its name among the state's cities or counties
storeIndex(e) == CHOOSE i \in DOMAIN JURISDICTIONS : JURISDICTIONS[i].key = e.state
kindIndex(e) == IF e.type = "STATE" THEN 1 ELSE IF e.type = "CITY" THEN 2 ELSE 3
localIndex(e) ==
  LET state == getState(JURISDICTIONS, e.state)
      names == IF e.type = "CITY" THEN keys(state.cities) ELSE keys(state.counties)
  IN  IF e.type = "STATE" THEN 0
      ELSE CHOOSE i \in DOMAIN names : names[i] = e.label

\* e is discovered before f
discoveredBefore(e, f) ==
  LET re == <<firstToken(e), storeIndex(e), kindIndex(e), localIndex(e)>>
      rf == <<firstToken(f), storeIndex(f), kindIndex(f), localIndex(f)>>
  IN  \E k \in 1..4 : re[k] < rf[k] /\ \A m \in 1..(k - 1) : re[m] = rf[m]

\* C1: for every input the list returned by buildSuggestions has at most 8
\* entries, and they are the first 8 of the de-duplicated matches in discovery
\* order: all are matches, there are min(8, number of matches) of them, and no
\* match left out is discovered before one that is returned.
C1_AtMostEightTheFirstEight ==
  lastSearch.called =>
    /\ Len(Found) <= 8
    /\ Len(Found) = Min(8, Cardinality(Matches))
    /\ set(Found) \subseteq Matches
    /\ \A m \in Matches \ set(Found) : \A e \in set(Found) : discoveredBefore(e, m)

\* C1 witness: a search with more than 8 matches has returned its first 8
C1_Witness ==
  /\ lastSearch.called
  /\ Cardinality(Matches) > 8
  /\ Len(Found) = 8

\* The text searched is the code of a state of the store
IsStoreCode(q) == \E i \in DOMAIN JURISDICTIONS : JURISDICTIONS[i].key = q

\* The result holds the STATE entry of the state abbr
HasStateEntry(abbr) ==
  \E k \in DOMAIN Found : Found[k].type = "STATE" /\ Found[k].state = abbr

\* The result holds the CITY entry of (abbr, city)
HasCityEntry(abbr, city) ==
  \E k \in DOMAIN Found :
    Found[k].type = "CITY" /\ Found[k].state = abbr /\ Found[k].city = city

\* C2: for every state in the store, a search whose input is exactly that
\* state's code returns a list that contains the STATE entry of that code.
C2_StateCodeFindsItsState ==
  (lastSearch.called /\ IsStoreCode(lastSearch.query)) => HasStateEntry(lastSearch.query)

\* C2 witness: the search for "AZ" has returned the STATE entry of AZ
C2_Witness ==
  /\ lastSearch.called
  /\ lastSearch.query = <<"A","Z">>
  /\ HasStateEntry(<<"A","Z">>)

\* The text searched is "<street>, <City>, <ST> <5-digit zip>" for a city
\* recorded under the state ST of the store
IsCityAddress(q, abbr, city) ==
  /\ getState(JURISDICTIONS, abbr) # undefined
  /\ city \in set(keys(getState(JURISDICTIONS, abbr).cities))
  /\ q = address(city, abbr, Zip5)

CitiesOfStore ==
  UNION { {<<JURISDICTIONS[i].key, c>> : c \in set(keys(deref(JURISDICTIONS[i].value).cities))}
          : i \in DOMAIN JURISDICTIONS }

\* C3: for an address "<street>, <City>, <ST> <5-digit zip>" whose City is
\* recorded under ST, the result holds the CITY entry of (ST, City) and the
\* STATE entry of ST, and no label or sub-label holds the zip code.
C3_AddressFindsCityAndState ==
  lastSearch.called =>
    \A sc \in CitiesOfStore :
      IsCityAddress(lastSearch.query, sc[1], sc[2]) =>
        /\ HasCityEntry(sc[1], sc[2])
        /\ HasStateEntry(sc[1])
        /\ \A k \in DOMAIN Found :
             ~includes(Found[k].label, Zip5) /\ ~includes(Found[k].sub, Zip5)

\* C3 witness: the address of the specification's example has returned the
\* CITY entry of Phoenix and the STATE entry of AZ
C3_Witness ==
  /\ lastSearch.called
  /\ lastSearch.query = address(<<"P","h","o","e","n","i","x">>, <<"A","Z">>, Zip5)
  /\ HasCityEntry(<<"A","Z">>, <<"P","h","o","e","n","i","x">>)
  /\ HasStateEntry(<<"A","Z">>)

\* C4: an input whose length after trimming is below 2 yields an empty result
\* list, no error, and the autocomplete list is then not shown.
C4_ShortQueryEmptyAndHidden ==
  (lastSearch.called /\ Len(trim(lastSearch.query)) < 2) =>
    /\ Found = <<>>
    /\ ~visible

\* C4 witness: a padded one-letter input was searched while the list of an
\* earlier search was showing; the list is hidden
C4_Witness ==
  /\ lastSearch.called
  /\ Len(lastSearch.query) >= 2
  /\ Len(trim(lastSearch.query)) = 1
  /\ Len(suggestions) > 0
  /\ ~visible

\* C5: no two entries of a result share an identity key, and a jurisdiction
\* that several tokens match stands where its first matching token put it:
\* entries are in the order of their first matching tokens.
C5_NoDuplicateFirstOccurrenceKept ==
  lastSearch.called =>
    \A i, j \in DOMAIN Found :
      i < j => /\ identity(Found[i]) # identity(Found[j])
               /\ firstToken(Found[i]) <= firstToken(Found[j])

\* C5 witness: a returned entry is matched by the first and by the second token
C5_Witness ==
  /\ lastSearch.called
  /\ Len(Tokens) >= 2
  /\ \E k \in DOMAIN Found : tokenMatches(1, Found[k]) /\ tokenMatches(2, Found[k])

\* C6 as stated: within the matches of one token every STATE entry comes before
\* every CITY and COUNTY entry, and the STATE entries are in store order.
C6_Stated ==
  lastSearch.called =>
    \A i, j \in DOMAIN Found :
      (i < j /\ firstToken(Found[i]) = firstToken(Found[j])) =>
        /\ ~(Found[i].type # "STATE" /\ Found[j].type = "STATE")
        /\ (Found[i].type = "STATE" /\ Found[j].type = "STATE")
             => storeIndex(Found[i]) < storeIndex(Found[j])

\* C6 amended: within the matches of one token the states are visited in store
\* order, and for each state its STATE entry comes before its CITY and COUNTY
\* entries; a CITY or COUNTY entry of an earlier state comes before the STATE
\* entry of a later state.
C6_PerStateInStoreOrder ==
  lastSearch.called =>
    \A i, j \in DOMAIN Found :
      (i < j /\ firstToken(Found[i]) = firstToken(Found[j])) =>
        /\ storeIndex(Found[i]) <= storeIndex(Found[j])
        /\ Found[i].state = Found[j].state => Found[j].type # "STATE"

\* C6 witness: for one token, a CITY entry of an earlier state is returned before
\* the STATE entry of a later state, and a STATE entry before a CITY entry of
\* its own state
C6_Witness ==
  /\ lastSearch.called
  /\ Len(Tokens) = 1
  /\ \E i, j \in DOMAIN Found :
       i < j /\ Found[i].type = "CITY" /\ Found[j].type = "STATE"
  /\ \E i, j \in DOMAIN Found :
       i < j /\ Found[i].type = "STATE" /\ Found[j].type = "CITY"
             /\ Found[i].state = Found[j].state

(* ======================= the claims about the report =================== *)
\* The record of the scope the last request names: the state for a state scope,
\* the city or county record for a local scope; undefined when the store does
\* not hold it.
scopeRecord(r) ==
  LET state == getState(JURISDICTIONS, r.state)
  IN  IF state = undefined THEN undefined
      ELSE IF r.kind = "STATE" THEN state
      ELSE IF r.kind = "CITY" THEN get(state.cities, r.name)
      ELSE get(state.counties, r.name)

Requested == request.kind # "NONE"
ScopeExists == Requested /\ scopeRecord(request) # undefined

\* The codes of a mapping, and its (code, amendment) pairs
codesOf(adopted) == {adopted[i].key : i \in DOMAIN adopted}
amendmentsOf(adopted) ==
  UNION { IF "amendments" \in DOMAIN adopted[i].value
          THEN {<<adopted[i].key, k>> : k \in DOMAIN adopted[i].value.amendments}
          ELSE {}
          : i \in DOMAIN adopted }

\* C7: the adopted-codes count of a report is the number of entries of the
\* active scope's own mapping (the state's for a state scope, the local
\* record's for a local scope); a local record with an empty mapping gives a
\* report with count 0 and no error.
C7_CodeCountOfOwnMapping ==
  ScopeExists =>
    /\ ~request.thrown
    /\ request.rendered
    /\ rightPanel.kind = "report"
    /\ rightPanel.codeCount = Cardinality(codesOf(scopeRecord(request).adopted))

\* C7 witness: the report of a county whose mapping is empty, in a state whose
\* mapping is not, shows 0 codes
C7_Witness ==
  /\ ScopeExists
  /\ request.kind = "COUNTY"
  /\ scopeRecord(request).adopted = <<>>
  /\ getState(JURISDICTIONS, request.state).adopted # <<>>
  /\ request.rendered
  /\ rightPanel.codeCount = 0

\* C8: the amendment count of a report is the sum of the lengths of the
\* amendment lists of the active scope's own records; for a local scope it
\* holds neither the state's amendments nor those of attached fire districts.
C8_AmendCountOfOwnRecords ==
  ScopeExists =>
    /\ rightPanel.kind = "report"
    /\ rightPanel.amendCount = Cardinality(amendmentsOf(scopeRecord(request).adopted))

\* C8 witness: the report of a city with amendments of its own, in a state that
\* has amendments, with a fire district that has amendments
C8_Witness ==
  /\ ScopeExists
  /\ request.kind = "CITY"
  /\ request.rendered
  /\ rightPanel.amendCount > 0
  /\ amendmentsOf(getState(JURISDICTIONS, request.state).adopted) # {}
  /\ "fireDistricts" \in DOMAIN scopeRecord(request)
  /\ \E d \in DOMAIN scopeRecord(request).fireDistricts :
       amendmentsOf(scopeRecord(request).fireDistricts[d].adopted) # {}

\* C9: the warning banner is shown exactly when the amendment count of the
\* report is strictly greater than 3.
C9_BannerIffMoreThanThree ==
  rightPanel.kind = "report" => (rightPanel.amendBanner <=> rightPanel.amendCount > 3)

\* C9 witness: a report with exactly 3 amendments shows no banner
C9_Witness ==
  /\ rightPanel.kind = "report"
  /\ rightPanel.amendCount = 3
  /\ ~rightPanel.amendBanner

\* C10: a request for a state code the store does not hold, or for a local name
\* a held state does not hold, is signalled to the caller and renders no report.
C10_UnknownScopeSignalled ==
  (Requested /\ ~ScopeExists) =>
    /\ request.thrown
    /\ ~request.rendered

\* C10 witness: the request for a state code the store does not hold has
\* thrown and left the panel as it was
C10_Witness ==
  /\ Requested
  /\ getState(JURISDICTIONS, request.state) = undefined
  /\ request.thrown
  /\ rightPanel = Welcome

(* ================= the claims about the sections of a report =========== *)
LocalScope == ScopeExists /\ request.kind # "STATE"
StateScope == ScopeExists /\ request.kind = "STATE"
stateOfRequest == getState(JURISDICTIONS, request.state)
cardKeys(cs) == {cs[i].key : i \in DOMAIN cs}

\* C11: a local-scope report has the inherited (state-level base codes) section
\* exactly when the parent state's own mapping is non-empty, whether or not the
\* local mapping is empty; a state-scope report never has it.
C11_InheritedSectionIffLocalAndStateCodes ==
  ScopeExists =>
    ((rightPanel.stateCodeNote # <<>>)
       <=> (request.kind # "STATE" /\ codesOf(stateOfRequest.adopted) # {}))

\* C11 witness: the report of a local record whose own mapping is empty has the
\* inherited section
C11_Witness ==
  /\ LocalScope
  /\ scopeRecord(request).adopted = <<>>
  /\ rightPanel.codes_html = <<>>
  /\ rightPanel.stateCodeNote # <<>>

\* C12: in a local-scope report, for every code key that the local mapping and
\* the state mapping both hold, the card presented is the local record's and
\* the state's entry is not among the inherited codes.
C12_OverriddenCodesNotInherited ==
  LocalScope =>
    \A k \in codesOf(scopeRecord(request).adopted) \cap codesOf(stateOfRequest.adopted) :
      /\ \E i \in DOMAIN rightPanel.codes_html :
           /\ rightPanel.codes_html[i].key = k
           /\ rightPanel.codes_html[i].amendments
                = Cardinality({p \in amendmentsOf(scopeRecord(request).adopted) : p[1] = k})
      /\ k \notin cardKeys(rightPanel.stateCodeNote)

\* C12 witness: a local-scope report presents the local record's card for a code
\* that the state holds with a different amendment list
C12_Witness ==
  /\ LocalScope
  /\ \E i \in DOMAIN rightPanel.codes_html :
       LET k == rightPanel.codes_html[i].key
       IN  /\ k \in codesOf(stateOfRequest.adopted)
           /\ rightPanel.codes_html[i].amendments
                = Cardinality({p \in amendmentsOf(scopeRecord(request).adopted) : p[1] = k})
           /\ rightPanel.codes_html[i].amendments
                # Cardinality({p \in amendmentsOf(stateOfRequest.adopted) : p[1] = k})

\* The type a local record declares, "municipality" when it declares none
declaredType(local) ==
  IF "type" \in DOMAIN local /\ local.type # <<>>
  THEN local.type ELSE <<"m","u","n","i","c","i","p","a","l","i","t","y">>

\* label is the text t written in capital letters
isUpperCaseOf(label, t) ==
  /\ Len(label) = Len(t)
  /\ \A i \in DOMAIN label :
       /\ label[i] \notin set(LowerCase)
       /\ \/ label[i] = t[i]
          \/ \E n \in DOMAIN UpperCase : label[i] = UpperCase[n] /\ t[i] = LowerCase[n]

\* C13: the jurisdiction-type label of a report is STATE for a state scope and,
\* for a local scope, the local record's declared type ("municipality" when the
\* record declares none), in capital letters.
C13_TypeLabel ==
  ScopeExists =>
    IF request.kind = "STATE"
    THEN rightPanel.jType = <<"S","T","A","T","E">>
    ELSE isUpperCaseOf(rightPanel.jType, declaredType(scopeRecord(request)))

\* C13 witness: the report of a record under cities whose declared type is not
\* "city" carries the declared type
C13_Witness ==
  /\ LocalScope
  /\ request.kind = "CITY"
  /\ scopeRecord(request).type # <<"c","i","t","y">>
  /\ rightPanel.jType = <<"M","U","N","I","C","I","P","A","L","I","T","Y">>

\* C14: the fire-district count of a report is 0 for a state scope and, for a
\* local scope, the length of the local record's fire-district list (0 when it
\* has none); the fire-district section is rendered only when that count is
\* positive.
C14_FireDistrictCount ==
  ScopeExists =>
    /\ rightPanel.fireDistricts
         = (IF request.kind # "STATE" /\ "fireDistricts" \in DOMAIN scopeRecord(request)
            THEN Cardinality(DOMAIN scopeRecord(request).fireDistricts) ELSE 0)
    /\ rightPanel.fireSection <=> rightPanel.fireDistricts > 0

\* C14 witness: the report of a local record with a fire district shows the
\* count and the section
C14_Witness ==
  /\ LocalScope
  /\ "fireDistricts" \in DOMAIN scopeRecord(request)
  /\ rightPanel.fireDistricts > 0
  /\ rightPanel.fireSection

(* ================== the claims about source attribution ================ *)
\* The source-attribution set of the report: the sources of the rows of the panel
reportSources == {rightPanel.footer.rows[i].source : i \in DOMAIN rightPanel.footer.rows}

\* The code keys of the active scope: local and state for a local scope
scopeCodes ==
  IF request.kind = "STATE" THEN codesOf(stateOfRequest.adopted)
  ELSE codesOf(scopeRecord(request).adopted) \cup codesOf(stateOfRequest.adopted)

\* The source the code-book-to-source mapping gives a code key
sourcesOf(k) == {CODE_SOURCES[i].value : i \in {j \in DOMAIN CODE_SOURCES : CODE_SOURCES[j].key = k}}
DataSourceKeys == {DATA_SOURCES[i].key : i \in DOMAIN DATA_SOURCES}

\* C15: the source-attribution set of a report holds the general local-ordinance
\* source (municode) for every local-scope report, even when no code maps to
\* it, and never for a state-scope report.
C15_MunicodeIffLocal ==
  ScopeExists => (("municode" \in reportSources) <=> request.kind # "STATE")

\* C15 witness: a local-scope report has the municode row, which covers none of
\* its codes, and no code of the scope maps to municode
C15_Witness ==
  /\ LocalScope
  /\ \E i \in DOMAIN rightPanel.footer.rows :
       /\ rightPanel.footer.rows[i].source = "municode"
       /\ rightPanel.footer.rows[i].covers = <<>>
  /\ \A k \in scopeCodes : "municode" \notin sourcesOf(k)

\* C16: for every code key of the active scope (local and state mappings for a
\* local scope, the state mapping for a state scope) that the code-to-source
\* mapping maps, the mapped source is in the report's source-attribution set,
\* and every member of that set is a source of DATA_SOURCES.
C16_MappedSourcesAttributed ==
  ScopeExists =>
    /\ \A k \in scopeCodes : sourcesOf(k) \subseteq reportSources
    /\ reportSources \subseteq DataSourceKeys

\* C16 witness: a local-scope report attributes a source that only a code of the
\* state mapping maps to
C16_Witness ==
  /\ LocalScope
  /\ \E k \in codesOf(stateOfRequest.adopted) :
       /\ sourcesOf(k) # {}
       /\ sourcesOf(k) \subseteq reportSources
       /\ \A l \in codesOf(scopeRecord(request).adopted) : sourcesOf(l) \cap sourcesOf(k) = {}

\* The per-state page of the energy-code portal for the state of the request,
\* and the generic page
perStateUrl ==
  <<"https://www.energycodes.gov/status/states/">>
    \o [i \in DOMAIN request.state |->
          IF \E n \in DOMAIN UpperCase : UpperCase[n] = request.state[i]
          THEN LowerCase[CHOOSE n \in DOMAIN UpperCase : UpperCase[n] = request.state[i]]
          ELSE request.state[i]]
genericUrl == <<"https://www.energycodes.gov/status">>

\* C17: for an IECC entry of a report for a jurisdiction in state S, the source
\* URL is the per-state page for S, not the generic URL: on the cards of the
\* active section, on the cards of the inherited section, and on the row of the
\* energy source in the sources panel.
C17_EnergyUrlPerState ==
  ScopeExists =>
    /\ \A i \in DOMAIN rightPanel.codes_html :
         rightPanel.codes_html[i].key = "IECC"
           => rightPanel.codes_html[i].sourceUrl = perStateUrl
    /\ \A i \in DOMAIN rightPanel.stateCodeNote :
         rightPanel.stateCodeNote[i].key = "IECC"
           => rightPanel.stateCodeNote[i].sourceUrl = perStateUrl
    /\ \A i \in DOMAIN rightPanel.footer.rows :
         rightPanel.footer.rows[i].source = "becp"
           => rightPanel.footer.rows[i].url = perStateUrl
    /\ perStateUrl # genericUrl

\* C17 witness: a local-scope report with an IECC card in the active section, one
\* in the inherited section and the row of the energy source
C17_Witness ==
  /\ LocalScope
  /\ "IECC" \in cardKeys(rightPanel.codes_html)
  /\ "IECC" \in cardKeys(rightPanel.stateCodeNote)
  /\ "becp" \in reportSources
  /\ \A i \in DOMAIN rightPanel.codes_html :
       rightPanel.codes_html[i].key = "IECC" => rightPanel.codes_html[i].sourceUrl = perStateUrl

(* ===================== the claims about the store ====================== *)
\* The display names of the browse list, in its order
browseNames == [i \in DOMAIN statesSorted |-> deref(statesSorted[i]).name]

\* The store has not been modified since the browse list was built: the
\* fallback step only adds states, so the list then holds as many states as the
\* store
StoreUnmodifiedSinceBuilt ==
  "app" \in scriptsRun /\ Len(statesSorted) = Len(JURISDICTIONS)

\* C18: the browse order of the states is ascending by display name, and
\* deterministic: the list holds every state of the store it was built from
\* once, no two of its names compare equal (so the names alone fix the order),
\* and building the list or the tree again on the unmodified store gives the
\* identical sequence.  The list is built again in the states the scripts
\* alone reach: a lookup changes neither the store nor the list.
C18_BrowseOrderAscendingDeterministic ==
  "app" \in scriptsRun =>
    /\ \A i, j \in DOMAIN statesSorted :
         i < j => localeCompare(browseNames[i], browseNames[j]) < 0
    /\ \A i \in DOMAIN statesSorted :
         \E k \in DOMAIN JURISDICTIONS : JURISDICTIONS[k].value = statesSorted[i]
    /\ (StoreUnmodifiedSinceBuilt /\ request = NoRequest) =>
         /\ \A k \in DOMAIN JURISDICTIONS :
              \E i \in DOMAIN statesSorted : JURISDICTIONS[k].value = statesSorted[i]
         /\ sort(values(JURISDICTIONS)) = statesSorted
         /\ buildTree(sort(values(JURISDICTIONS))) = stateTree

\* C18 witness: the list was built from a store with the fallback states, whose
\* own order is not ascending by name
C18_Witness ==
  /\ StoreUnmodifiedSinceBuilt
  /\ request = NoRequest
  /\ "fallback" \in scriptsRun
  /\ \E k \in 1..(Len(JURISDICTIONS) - 1) :
       localeCompare(deref(JURISDICTIONS[k].value).name,
                     deref(JURISDICTIONS[k+1].value).name) > 0
  /\ statesSorted # values(JURISDICTIONS)

\* The keys of the store, and the jurisdiction stored under a key
storeKeys == {JURISDICTIONS[i].key : i \in DOMAIN JURISDICTIONS}
stored(c) == deref(JURISDICTIONS[CHOOSE i \in DOMAIN JURISDICTIONS : JURISDICTIONS[i].key = c].value)

\* C19: for every key c of the jurisdiction store, before and after the fallback
\* stubs have been merged, the stored jurisdiction's own code field equals c,
\* so a lookup by c returns a jurisdiction whose code is c; no key occurs twice
\* and no two keys hold a jurisdiction with the same code.
C19_StoredCodeIsKey ==
  /\ \A i \in DOMAIN JURISDICTIONS :
       /\ deref(JURISDICTIONS[i].value).abbr = JURISDICTIONS[i].key
       /\ getState(JURISDICTIONS, JURISDICTIONS[i].key) # undefined
       /\ getState(JURISDICTIONS, JURISDICTIONS[i].key).abbr = JURISDICTIONS[i].key
  /\ \A i, j \in DOMAIN JURISDICTIONS :
       i # j => /\ JURISDICTIONS[i].key # JURISDICTIONS[j].key
                /\ deref(JURISDICTIONS[i].value).abbr # deref(JURISDICTIONS[j].value).abbr

\* C19 witness: the fallback stubs have been merged, and a key that the primary
\* dataset does not hold is looked up and gives a jurisdiction with that code
C19_Witness ==
  /\ "fallback" \in scriptsRun
  /\ \E c \in storeKeys :
       /\ \A i \in DOMAIN JURISDICTIONS_LITERAL : JURISDICTIONS_LITERAL[i].key # c
       /\ stored(c).abbr = c
       /\ request.kind = "STATE" /\ request.state = c /\ ~request.thrown

\* The store of the primary dataset, and the codes of the fallback list
primary == objectLiteral(JURISDICTIONS_LITERAL)
primaryKeys == {primary[i].key : i \in DOMAIN primary}
fallbackCodes == {ALL_STATES[n].abbr : n \in DOMAIN ALL_STATES}

\* A stub entry for element n of the fallback list: the generic note, the
\* default IBC and NEC adoptions, no city and no county
IsStubFor(j, n) ==
  /\ j.name = ALL_STATES[n].name
  /\ j.abbr = ALL_STATES[n].abbr
  /\ j.stateNote = Str_stubNote
  /\ [i \in DOMAIN j.adopted |-> j.adopted[i].key] = <<"IBC", "NEC">>
  /\ j.cities = <<>>
  /\ j.counties = <<>>

\* C20: the fallback step creates a stub entry (generic note, default IBC and
\* NEC adoptions, empty city and county maps) only for a state code that is
\* absent from the store; it never overwrites or alters an entry of the primary
\* dataset, and after it has run every state code of the fallback list is
\* present in the store.  Before it runs the store is the primary dataset.
C20_FallbackAddsStubsOnly ==
  /\ Len(JURISDICTIONS) >= Len(primary)
  /\ SubSeq(JURISDICTIONS, 1, Len(primary)) = primary
  /\ "fallback" \notin scriptsRun => JURISDICTIONS = primary
  /\ "fallback" \in scriptsRun =>
       /\ fallbackCodes \subseteq storeKeys
       /\ \A i \in (Len(primary) + 1)..Len(JURISDICTIONS) :
            /\ JURISDICTIONS[i].key \notin primaryKeys
            /\ \E n \in DOMAIN ALL_STATES :
                 /\ ALL_STATES[n].abbr = JURISDICTIONS[i].key
                 /\ IsStubFor(deref(JURISDICTIONS[i].value), n)

\* C20 witness: the fallback step has run and stored a stub for every code of
\* its list after the entries of the primary dataset, none of which it holds
C20_Witness ==
  /\ "fallback" \in scriptsRun
  /\ Len(JURISDICTIONS) = Len(primary) + Len(ALL_STATES)
  /\ fallbackCodes \cap primaryKeys = {}
  /\ IsStubFor(deref(JURISDICTIONS[Len(JURISDICTIONS)].value), Len(ALL_STATES))

(* ================= the claims about the session as a whole ============== *)
\* C21: no search, suggestion selection, tree click or report writes the
\* jurisdiction store: a step that changes the store is the fallback step run
\* for the first time, and it only adds stubs after the entries the store
\* holds, none of which it changes or removes.
C21_StoreWrittenOnlyByFallback ==
  [][ JURISDICTIONS' # JURISDICTIONS =>
        /\ "fallback" \notin scriptsRun
        /\ "fallback" \in scriptsRun'
        /\ Len(JURISDICTIONS') > Len(JURISDICTIONS)
        /\ SubSeq(JURISDICTIONS', 1, Len(JURISDICTIONS)) = JURISDICTIONS
        /\ \A i \in (Len(JURISDICTIONS) + 1)..Len(JURISDICTIONS') :
             JURISDICTIONS'[i].value.obj = "stub" ]_vars

\* C21 witness: after a search, a selection of a suggestion and a report, the
\* store is the primary dataset followed by the fallback stubs
C21_Witness ==
  /\ scriptsRun = {"fallback", "app"}
  /\ lastSearch.called
  /\ request.rendered
  /\ searchInput # <<>>
  /\ JURISDICTIONS = fallback(primary)

\* The derived statistics of a panel, and the statistics of the scope r as the
\* store gives them: a function of the scope and the store alone
stats(p) == <<p.codeCount, p.amendCount, p.jType, p.fireDistricts, p.amendBanner>>
capitals(t) ==
  [i \in DOMAIN t |->
     IF \E n \in DOMAIN LowerCase : LowerCase[n] = t[i]
     THEN UpperCase[CHOOSE n \in DOMAIN LowerCase : LowerCase[n] = t[i]]
     ELSE t[i]]
statsOfScope(r) ==
  LET own == scopeRecord(r)
      n   == Cardinality(amendmentsOf(own.adopted))
  IN  << Cardinality(codesOf(own.adopted)),
         n,
         IF r.kind = "STATE" THEN <<"S","T","A","T","E">> ELSE capitals(declaredType(own)),
         IF r.kind # "STATE" /\ "fireDistricts" \in DOMAIN own
         THEN Cardinality(DOMAIN own.fireDistricts) ELSE 0,
         n > 3 >>
sameScope(r, q) == r.kind = q.kind /\ r.state = q.state /\ r.name = q.name

\* C22: the derived statistics of a report (code count, amendment count, type
\* label, fire-district count, major-amendments signal) are the same whenever
\* the report is composed for the same scope on the same store: in every state,
\* whatever searches and reports came before, the statistics shown are those
\* the scope and the store give, and a step that composes the report of the
\* scope already shown leaves them as they are.
C22_ReportStatisticsRepeatable ==
  /\ [](request.rendered => stats(rightPanel) = statsOfScope(request))
  /\ [][ (request.rendered /\ request'.rendered /\ sameScope(request, request')
            /\ JURISDICTIONS' = JURISDICTIONS)
           => stats(rightPanel') = stats(rightPanel) ]_vars

\* C22 witness: the report of a city with amendments is shown, composed by a
\* tree click or a selection after a search whose results do not hold the city
C22_Witness ==
  /\ request.rendered
  /\ request.kind = "CITY"
  /\ lastSearch.called
  /\ lastSearch.results # <<>>
  /\ \A i \in DOMAIN lastSearch.results :
       ~(lastSearch.results[i].type = "CITY" /\ lastSearch.results[i].city = request.name)
  /\ stats(rightPanel) = statsOfScope(request)
  /\ rightPanel.amendCount > 0

(* ================= more claims about the search ======================== *)
\* The comma-separated pieces of the text searched, and the tokens the search
\* makes of them before de-duplication
piecesOfQuery == split(lastSearch.query, ",")
cleanedPieces == rawParts(lastSearch.query)

\* p ends in a 5-digit postal code, optionally followed by "-" and 4 digits;
\* p without that postal code
endsInZip5(p) == Len(p) >= 5 /\ \A i \in (Len(p) - 4)..Len(p) : p[i] \in Digits
endsInZip9(p) ==
  /\ Len(p) >= 10
  /\ \A i \in (Len(p) - 3)..Len(p) : p[i] \in Digits
  /\ p[Len(p) - 4] = "-"
  /\ \A i \in (Len(p) - 9)..(Len(p) - 5) : p[i] \in Digits
withoutZip(p) ==
  IF endsInZip9(p) THEN SubSeq(p, 1, Len(p) - 10)
  ELSE IF endsInZip5(p) THEN SubSeq(p, 1, Len(p) - 5)
  ELSE p

\* C23: each comma-separated piece of the search input is trimmed, has a
\* trailing 5-digit postal code (optionally followed by -dddd) removed, and is
\* trimmed again before matching, for every piece that ends in such a postal
\* code, including a piece that consists of the postal code alone.
C23_PostalCodeRemovedFromEveryPiece ==
  (lastSearch.called /\ Len(lastSearch.query) >= MinQueryLength) =>
    /\ Len(cleanedPieces) = Len(piecesOfQuery)
    /\ \A i \in DOMAIN piecesOfQuery :
         cleanedPieces[i] = trim(withoutZip(trim(piecesOfQuery[i])))

\* C23 witness: the search for the address of the specification's example has
\* made the token "AZ" of the piece " AZ 85001"
C23_Witness ==
  /\ lastSearch.called
  /\ lastSearch.query = address(<<"P","h","o","e","n","i","x">>, <<"A","Z">>, Zip5)
  /\ piecesOfQuery[3] = <<" ","A","Z"," ">> \o Zip5
  /\ cleanedPieces[3] = <<"A","Z">>

\* The tokens that survive: the cleaned pieces of at least 2 characters
survivingTokens ==
  {cleanedPieces[i] : i \in {j \in DOMAIN cleanedPieces : Len(cleanedPieces[j]) >= 2}}

\* The same text in small letters, whatever the case of a and b
sameIgnoringCase(a, b) ==
  /\ Len(a) = Len(b)
  /\ \A i \in DOMAIN a :
       \/ a[i] = b[i]
       \/ \E n \in DOMAIN LowerCase :
            {a[i], b[i]} \subseteq {LowerCase[n], UpperCase[n]}
containsIgnoringCase(s, t) ==
  \E i \in 1..(Len(s) - Len(t) + 1) : sameIgnoringCase(SubSeq(s, i, i + Len(t) - 1), t)

\* The token t matches the jurisdiction of entry e
matchesJurisdiction(t, e) ==
  \/ containsIgnoringCase(e.label, t)
  \/ e.type = "STATE" /\ sameIgnoringCase(e.state, t)
Matched == {e \in Jurisdictions : \E t \in survivingTokens : matchesJurisdiction(t, e)}

\* The result list before results.slice(0, 8)
beforeTruncation ==
  IF Len(lastSearch.query) < MinQueryLength THEN <<>>
  ELSE pushUnseen(forEachTerm(terms(lastSearch.query), stateObjects(JURISDICTIONS), 1))

\* C24: before truncation, a jurisdiction is in the search result if and only
\* if some surviving token (length at least 2 after cleaning) matches it
\* case-insensitively: a state when the token is a substring of its display
\* name or equals its state code, a city or county when the token is a
\* substring of its name; tokens shorter than 2 characters contribute no
\* matches.  The list returned is the first 8 of that result.
C24_InResultIffSomeTokenMatches ==
  lastSearch.called =>
    /\ set(beforeTruncation) = Matched
    /\ Found = SubSeq(beforeTruncation, 1, Min(8, Len(beforeTruncation)))

\* C24 witness: a search of at most 8 matches has returned a state that a token
\* matches by its code and not by its name, and a city or county
C24_Witness ==
  /\ lastSearch.called
  /\ Found # <<>>
  /\ set(Found) = Matched
  /\ \E k \in DOMAIN Found :
       /\ Found[k].type = "STATE"
       /\ \A t \in survivingTokens : ~containsIgnoringCase(Found[k].label, t)
  /\ \E k \in DOMAIN Found : Found[k].type # "STATE"

(* ================= the claim about the amendment classifier ============ *)
\* The category the keywords of a text give it, with and without the rule
\* for texts that begin with "based on" or "chapter"
beginsIgnoringCase(s, t) == Len(t) <= Len(s) /\ sameIgnoringCase(SubSeq(s, 1, Len(t)), t)
keywordCategory(a) ==
  IF \/ containsIgnoringCase(a, <<"r","e","q","u","i","r","e","d">>)
     \/ containsIgnoringCase(a, <<"m","a","n","d","a","t","o","r","y">>)
  THEN "amend-add"
  ELSE IF \/ containsIgnoringCase(a, <<"p","r","o","h","i","b","i","t","e","d">>)
          \/ containsIgnoringCase(a, <<"r","e","m","o","v","e","d">>)
  THEN "amend-del"
  ELSE "amend-mod"
isReference(a) ==
  \/ beginsIgnoringCase(a, <<"b","a","s","e","d"," ","o","n">>)
  \/ beginsIgnoringCase(a, <<"c","h","a","p","t","e","r">>)

\* C25 as stated: the classifier gives every amendment text exactly one
\* category: addition when the text contains "required" or "mandatory"
\* (case-insensitive), otherwise deletion when it contains "prohibited" or
\* "removed", otherwise the default modification category.
C25_Stated ==
  icon # "none" => icon = keywordCategory(amendment)

\* C25 amended: a text that begins with "based on" or "chapter"
\* (case-insensitive) is given the modification category whatever else it
\* contains; any other text is given the category of its keywords as stated.
C25_CategoryOfKeywordsUnlessReference ==
  icon # "none" =>
    /\ icon \in {"amend-add", "amend-del", "amend-mod"}
    /\ icon = (IF isReference(amendment) THEN "amend-mod" ELSE keywordCategory(amendment))

\* C25 witness: a text that holds a keyword of both kinds in capital and small
\* letters, and does not begin as a reference, has been classified an addition
C25_Witness ==
  /\ icon = "amend-add"
  /\ ~isReference(amendment)
  /\ containsIgnoringCase(amendment, <<"p","r","o","h","i","b","i","t","e","d">>)
  /\ ~includes(amendment, <<"r","e","q","u","i","r","e","d">>)

(* ============ the claims about selections and the browse tree ========== *)
\* The label of the scope last requested, and a step of the search button or
\* of Enter (the only steps of SpecResubmit that run a search)
requestLabel == IF request.kind = "STATE" THEN stateOfRequest.name ELSE request.name
SubmitStep == lastSearch' # lastSearch

\* C26: after a suggestion s has been selected (which writes the label of s
\* into the search box), the search button or Enter, used without editing the
\* text, resolves to the same scope s: the first result of the search for the
\* label of s is s itself.
C26_ResubmitResolvesToSameScope ==
  [][ (request.rendered /\ searchInput = requestLabel /\ SubmitStep) =>
        /\ lastSearch'.query = requestLabel
        /\ lastSearch'.results # <<>>
        /\ request'.rendered
        /\ sameScope(request', request) ]_vars

\* C26 witness: the button or Enter has been used on the label a selection
\* left in the box, and the report shown is that of a county which is the
\* first result for its own name
C26_Witness ==
  /\ lastSearch.called
  /\ lastSearch.results # <<>>
  /\ lastSearch.query = searchInput
  /\ request.rendered
  /\ request.kind = "COUNTY"
  /\ searchInput = requestLabel
  /\ lastSearch.results[1].type = "COUNTY"
  /\ lastSearch.results[1].state = request.state
  /\ lastSearch.results[1].county = request.name

\* The entry e resolves to a record of the store: its state code is a key, and
\* the name of a CITY (COUNTY) entry is a key of the city (county) map of that
\* state and is the field selectSuggestion reads
Resolves(e) ==
  LET state == getState(JURISDICTIONS, e.state)
  IN  /\ state # undefined
      /\ e.type \in {"STATE", "CITY", "COUNTY"}
      /\ e.type = "STATE"  => e.city = null /\ e.county = null
      /\ e.type = "CITY"   => /\ e.city # null /\ e.city = e.label
                              /\ e.city \in set(keys(state.cities))
      /\ e.type = "COUNTY" => /\ e.city = null
                              /\ e.county # null /\ e.county = e.label
                              /\ e.county \in set(keys(state.counties))

\* Every item of the browse tree names a record of the store
TreeResolves ==
  \A i \in DOMAIN stateTree :
    LET state == getState(JURISDICTIONS, stateTree[i].state)
    IN  /\ state # undefined
        /\ set(stateTree[i].cities) \subseteq set(keys(state.cities))
        /\ set(stateTree[i].counties) \subseteq set(keys(state.counties))

Initialized == scriptsRun = {"fallback", "app"}
rowsOf(c) == {i \in DOMAIN stateTree : stateTree[i].state = c}

\* C28: after initialization the browse tree has exactly one row for every
\* jurisdiction of the store, the states added by the fallback step included,
\* whichever of the two scripts (the one that builds the state list and the
\* tree, the one that adds the fallback stubs) ran first.
C28_TreeHasRowForEveryState ==
  Initialized =>
    /\ Len(stateTree) = Len(JURISDICTIONS)
    /\ \A c \in storeKeys : Cardinality(rowsOf(c)) = 1

\* C28 witness: both scripts have run, the store holds the fallback states and
\* the tree has exactly one row for each state of the store
C28_Witness ==
  /\ Initialized
  /\ Len(JURISDICTIONS) = Len(primary) + Len(ALL_STATES)
  /\ Len(stateTree) = Len(JURISDICTIONS)
  /\ \A c \in storeKeys : Cardinality(rowsOf(c)) = 1

(* ================= the claim about the autocomplete list =============== *)
\* The steps after which the list is to be hidden
SelectionStep ==
  \/ \E idx \in 1..MaxSuggestions : ClickSuggestion(idx)
  \/ (SearchBtnClick \/ EnterKey) /\ lastSearch'.results # <<>>
EmptyInputStep ==
  /\ (\E c \in TypeAlphabet : TypeChar(c)) \/ (\E q \in PasteExamples : PasteQuery(q))
  /\ lastSearch'.results = <<>>
entryOfRequest(r) ==
  [type |-> r.kind, state |-> r.state,
   city |-> IF r.kind = "CITY" THEN r.name ELSE null,
   county |-> IF r.kind = "COUNTY" THEN r.name ELSE null]
entryScope(e) == [type |-> e.type, state |-> e.state, city |-> e.city, county |-> e.county]

C30_OrderByTokenStateKind ==
  lastSearch.called =>
    \A i, j \in DOMAIN Found :
      i < j =>
        /\ firstToken(Found[i]) > 0
        /\ firstToken(Found[i]) <= firstToken(Found[j])
        /\ firstToken(Found[i]) = firstToken(Found[j]) =>
             /\ storeIndex(Found[i]) <= storeIndex(Found[j])
             /\ storeIndex(Found[i]) = storeIndex(Found[j]) =>
                  /\ kindIndex(Found[i]) <= kindIndex(Found[j])
                  /\ ~(Found[i].type = "STATE" /\ Found[j].type = "STATE")

\* C30 witness: a result that holds, for one token and one state, a CITY entry
\* before a COUNTY entry, entries of two states for one token, and entries
\* first discovered by different tokens
C30_Witness ==
  /\ lastSearch.called
  /\ \E i, j \in DOMAIN Found :
       /\ i < j
       /\ firstToken(Found[i]) = firstToken(Found[j])
       /\ Found[i].state = Found[j].state
       /\ Found[i].type = "CITY" /\ Found[j].type = "COUNTY"
  /\ \E i, j \in DOMAIN Found :
       /\ i < j
       /\ firstToken(Found[i]) = firstToken(Found[j])
       /\ storeIndex(Found[i]) < storeIndex(Found[j])
  /\ \E i, j \in DOMAIN Found : i < j /\ firstToken(Found[i]) < firstToken(Found[j])
====
